---- MODULE Spec2Model ----
(***************************************************************************)
(* Model of the HospitalInsights ingestion pipeline                        *)
(* (src/data_processor.py, class DataProcessor), of validate_data          *)
(* (src/utils.py) and of the sessions of the Streamlit app (src/app.py).   *)
(*                                                                         *)
(* Text is a sequence of one-character strings, so that trimming, case     *)
(* folding and substring search are computed and not assumed.  A table     *)
(* (pandas DataFrame) is a record [cols, rows]: cols the sequence of       *)
(* column names, rows the sequence of rows, each a sequence of cells.      *)
(* A cell is Null (NaN), NaT, or a tagged text, int, float or date.        *)
(* Numbers are integral-valued; a float cell n stands for n.0.             *)
(***************************************************************************)
EXTENDS Integers, Sequences, FiniteSets, TLC

VARIABLES
    pc,              \* position inside process_excel_file
    sheet_names,     \* excel_file.sheet_names
    patient_sheet,   \* local: result of the patient sheet lookup
    diagnosis_sheet, \* local: result of the diagnosis sheet lookup
    raw_patient,     \* the patient sheet as read by pd.read_excel
    raw_diagnosis,   \* the diagnosis sheet as read by pd.read_excel
    patient_df,      \* local patient_data of process_excel_file
    diagnosis_df,    \* local diagnosis_data of process_excel_file
    merged_df,       \* local merged_data of process_excel_file
    match_report,    \* <<matched_diagnoses, total_diagnoses>> of _merge_data
    patient_data,    \* self.patient_data
    diagnosis_data,  \* self.diagnosis_data
    merged_data,     \* self.merged_data
    error,           \* the exception process_excel_file raised, or "none"
    fs_in,           \* arguments of a stand-alone _find_sheet call
    fs_out,          \* its result
    g_in,            \* table given to a stand-alone _process_gender_column
    g_out,           \* the table it leaves
    g_again,         \* the table a second _process_gender_column leaves
    f_in,            \* argument of a stand-alone call of another function
    f_out,           \* its result
    session_state,   \* st.session_state of each browser session
    heap,            \* the objects the app created, by identity
    request          \* each session's script run: position and locals

vars == <<pc, sheet_names, patient_sheet, diagnosis_sheet, raw_patient,
          raw_diagnosis, patient_df, diagnosis_df, merged_df, match_report,
          patient_data, diagnosis_data, merged_data, error,
          fs_in, fs_out, g_in, g_out, g_again, f_in, f_out,
          session_state, heap, request>>

(***************************************************************************)
(* Text                                                                    *)
(***************************************************************************)
LowerChars == <<"a","b","c","d","e","f","g","h","i","j","k","l","m",
                "n","o","p","q","r","s","t","u","v","w","x","y","z">>
UpperChars == <<"A","B","C","D","E","F","G","H","I","J","K","L","M",
                "N","O","P","Q","R","S","T","U","V","W","X","Y","Z">>
DigitChars == <<"0","1","2","3","4","5","6","7","8","9">>
Whitespace == {" "}

UpperChar(c) ==
    IF \E i \in 1..26 : LowerChars[i] = c
    THEN UpperChars[CHOOSE i \in 1..26 : LowerChars[i] = c]
    ELSE c

LowerChar(c) ==
    IF \E i \in 1..26 : UpperChars[i] = c
    THEN LowerChars[CHOOSE i \in 1..26 : UpperChars[i] = c]
    ELSE c

\* str.upper()
Upper(s) == [i \in 1..Len(s) |-> UpperChar(s[i])]

\* str.lower()
Lower(s) == [i \in 1..Len(s) |-> LowerChar(s[i])]

RECURSIVE LStrip(_)
LStrip(s) == IF s # <<>> /\ Head(s) \in Whitespace THEN LStrip(Tail(s)) ELSE s

RECURSIVE RStrip(_)
RStrip(s) ==
    IF s # <<>> /\ s[Len(s)] \in Whitespace
    THEN RStrip(SubSeq(s, 1, Len(s) - 1))
    ELSE s

\* str.strip()
Strip(s) == RStrip(LStrip(s))

\* k in s
Contains(s, k) ==
    \E i \in 0..(Len(s) - Len(k)) : SubSeq(s, i + 1, i + Len(k)) = k

\* s.endswith(k)
EndsWith(s, k) ==
    /\ Len(k) <= Len(s)
    /\ SubSeq(s, Len(s) - Len(k) + 1, Len(s)) = k

\* any(keyword in s for keyword in keywords)
ContainsAny(s, keywords) ==
    \E j \in 1..Len(keywords) : Contains(s, keywords[j])

IsDigit(c) == \E i \in 1..10 : DigitChars[i] = c
DigitVal(c) == (CHOOSE i \in 1..10 : DigitChars[i] = c) - 1

RECURSIVE NatToStr(_)
NatToStr(n) ==
    IF n < 10 THEN <<DigitChars[n + 1]>>
    ELSE NatToStr(n \div 10) \o <<DigitChars[(n % 10) + 1]>>

IntToStr(n) == IF n < 0 THEN <<"-">> \o NatToStr(0 - n) ELSE NatToStr(n)

AllDigits(s) == s # <<>> /\ \A i \in 1..Len(s) : IsDigit(s[i])

RECURSIVE StrToNat(_)
StrToNat(s) ==
    IF s = <<>> THEN 0
    ELSE 10 * StrToNat(SubSeq(s, 1, Len(s) - 1)) + DigitVal(s[Len(s)])

(***************************************************************************)
(* Cells                                                                   *)
(***************************************************************************)
Null == [k |-> "null"]
NaT == [k |-> "nat"]
Txt(s) == [k |-> "str", s |-> s]
Int_(n) == [k |-> "int", n |-> n]
Flt(n) == [k |-> "float", n |-> n]
Date(d) == [k |-> "date", d |-> d]

\* pd.isna
IsNull(c) == c.k \in {"null", "nat"}
IsNum(c) == c.k \in {"int", "float"}

\* str(value), as Series.astype(str) renders each cell
Str(c) ==
    CASE c.k = "str" -> c.s
      [] c.k = "int" -> IntToStr(c.n)
      [] c.k = "float" -> IntToStr(c.n) \o <<".","0">>
      [] c.k = "date" -> c.d
      [] c.k = "nat" -> <<"N","a","T">>
      [] OTHER -> <<"n","a","n">>

\* A numeric column holding a NaN or a float is float64: its ints are floats.
Upcast(column) ==
    IF /\ \A i \in 1..Len(column) : IsNum(column[i]) \/ column[i] = Null
       /\ \E i \in 1..Len(column) : column[i] = Null \/ column[i].k = "float"
    THEN [i \in 1..Len(column) |->
             IF column[i].k = "int" THEN Flt(column[i].n) ELSE column[i]]
    ELSE column

(***************************************************************************)
(* Tables                                                                  *)
(***************************************************************************)
None == [none |-> TRUE]

Table(cols, rows) == [cols |-> cols, rows |-> rows]

\* the indices of S in increasing order
RECURSIVE IdxSeq(_)
IdxSeq(S) ==
    IF S = {} THEN <<>>
    ELSE LET m == CHOOSE x \in S : \A y \in S : x <= y
         IN <<m>> \o IdxSeq(S \ {m})

Pick(s, idx) == [i \in 1..Len(idx) |-> s[idx[i]]]

HasCol(df, name) == \E j \in 1..Len(df.cols) : df.cols[j] = name

ColIndex(df, name) ==
    CHOOSE j \in 1..Len(df.cols) :
        /\ df.cols[j] = name
        /\ \A i \in 1..(j - 1) : df.cols[i] # name

Column(df, j) == [i \in 1..Len(df.rows) |-> df.rows[i][j]]

\* df[col] = values
SetColumn(df, j, values) ==
    Table(df.cols,
          [i \in 1..Len(df.rows) |-> [df.rows[i] EXCEPT ![j] = values[i]]])

\* df.rename(columns={old: new})
Rename(df, old, new) ==
    Table([j \in 1..Len(df.cols) |->
              IF df.cols[j] = old THEN new ELSE df.cols[j]],
          df.rows)

\* df.dropna(subset=[the columns at the positions in J]): how='any'
DropnaSubset(df, J) ==
    Table(df.cols,
          Pick(df.rows,
               IdxSeq({i \in 1..Len(df.rows) :
                          \A j \in J : ~IsNull(df.rows[i][j])})))

(***************************************************************************)
(* Names and keyword lists of the source                                   *)
(***************************************************************************)
s_REGISTRY_ID == <<"R","E","G","I","S","T","R","Y"," ","I","D">>
s_AGE == <<"A","G","E">>
s_GENDER == <<"G","E","N","D","E","R">>
s_TRIAGE == <<"T","R","I","A","G","E">>
SUFFIX_DIAG == <<"_","D","I","A","G">>
SUFFIX_PATIENT == <<"_","P","A","T","I","E","N","T">>

PatientKeywords ==
    << <<"p","a","t","i","e","n","t">>,
       <<"p","a","t","i","e","n","t","s">>,
       <<"p","a","t","i","e","n","t","_","d","e","t","a","i","l","s">> >>

DiagnosisKeywords ==
    << <<"d","i","a","g","n","o","s","i","s">>,
       <<"d","i","a","g","n","o","s","e","s">>,
       <<"d","i","a","g","n","o","s","i","s","_","d","e","t","a","i","l","s">>,
       <<"d","i","a","g">> >>

RegistryKeywords ==
    << <<"R","E","G","I","S","T","R","Y">>,
       <<"I","D">>,
       <<"P","A","T","I","E","N","T","_","I","D">>,
       <<"P","A","T","I","E","N","T","I","D">> >>

GenderKeywords == << <<"G","E","N","D","E","R">>, <<"S","E","X">> >>

DateKeywords ==
    << <<"D","A","T","E">>,
       <<"T","I","M","E">>,
       <<"C","R","E","A","T","E","D">>,
       <<"U","P","D","A","T","E","D">>,
       <<"A","D","M","I","S","S","I","O","N">>,
       <<"D","I","S","C","H","A","R","G","E">> >>

DiagnosisColumnKeywords == << <<"D","I","A","G","N","O","S","I","S">>, <<"C","O","N","D","I","T","I","O","N">> >>

\* gender_mapping: <<key, canonical value>>
GenderMapping ==
    { <<<<"1">>, <<"M","A","L","E">>>>,
      <<<<"1",".","0">>, <<"M","A","L","E">>>>,
      <<<<"2">>, <<"F","E","M","A","L","E">>>>,
      <<<<"2",".","0">>, <<"F","E","M","A","L","E">>>>,
      <<<<"3">>, <<"T","R","A","N","S","G","E","N","D","E","R">>>>,
      <<<<"3",".","0">>, <<"T","R","A","N","S","G","E","N","D","E","R">>>>,
      <<<<"M">>, <<"M","A","L","E">>>>,
      <<<<"M","A","L","E">>, <<"M","A","L","E">>>>,
      <<<<"M","A","N">>, <<"M","A","L","E">>>>,
      <<<<"F">>, <<"F","E","M","A","L","E">>>>,
      <<<<"F","E","M","A","L","E">>, <<"F","E","M","A","L","E">>>>,
      <<<<"W","O","M","A","N">>, <<"F","E","M","A","L","E">>>>,
      <<<<"T">>, <<"T","R","A","N","S","G","E","N","D","E","R">>>>,
      <<<<"T","R","A","N","S","G","E","N","D","E","R">>, <<"T","R","A","N","S","G","E","N","D","E","R">>>>,
      <<<<"T","R","A","N","S">>, <<"T","R","A","N","S","G","E","N","D","E","R">>>>,
      <<<<"O">>, <<"O","T","H","E","R">>>>,
      <<<<"O","T","H","E","R">>, <<"O","T","H","E","R">>>>,
      <<<<"O","T","H","E","R","S">>, <<"O","T","H","E","R">>>> }

(***************************************************************************)
(* _find_sheet                                                             *)
(***************************************************************************)
\* The result of _find_sheet: <<>> is None, <<name>> is the sheet found.
NoSheet == <<>>

RECURSIVE FindSheetLoop(_, _, _, _)
FindSheetLoop(names, keywords, i, j) ==
    IF i > Len(names) THEN NoSheet
    ELSE IF j > Len(keywords) THEN FindSheetLoop(names, keywords, i + 1, 1)
    ELSE IF Contains(Lower(names[i]), Lower(keywords[j])) THEN <<names[i]>>
    ELSE FindSheetLoop(names, keywords, i, j + 1)

\* Faulty variant: the loops exchanged, so that the first keyword wins
RECURSIVE FindSheetKeywordMajorLoop(_, _, _, _)
FindSheetKeywordMajorLoop(names, keywords, i, j) ==
    IF j > Len(keywords) THEN NoSheet
    ELSE IF i > Len(names)
         THEN FindSheetKeywordMajorLoop(names, keywords, 1, j + 1)
    ELSE IF Contains(Lower(names[i]), Lower(keywords[j])) THEN <<names[i]>>
    ELSE FindSheetKeywordMajorLoop(names, keywords, i + 1, j)

FindSheetKeywordMajor(names, keywords) ==
    FindSheetKeywordMajorLoop(names, keywords, 1, 1)

FindSheet(names, keywords) == FindSheetLoop(names, keywords, 1, 1)

(***************************************************************************)
(* _clean_dataframe                                                        *)
(***************************************************************************)
\* df.dropna(how='all'): drop the rows whose cells are all null
DropEmptyRows(df) ==
    Table(df.cols,
          Pick(df.rows,
               IdxSeq({i \in 1..Len(df.rows) :
                          \E j \in 1..Len(df.cols) : ~IsNull(df.rows[i][j])})))

\* df.dropna(axis=1, how='all'): drop the columns whose cells are all null
DropEmptyColumns(df) ==
    LET keep == IdxSeq({j \in 1..Len(df.cols) :
                           \E i \in 1..Len(df.rows) : ~IsNull(df.rows[i][j])})
    IN Table(Pick(df.cols, keep),
             [i \in 1..Len(df.rows) |-> Pick(df.rows[i], keep)])

StandardizeNames(df) ==
    Table([j \in 1..Len(df.cols) |-> Upper(Strip(df.cols[j]))], df.rows)

RenameRegistryColumn(df) ==
    LET registry_columns ==
            IdxSeq({j \in 1..Len(df.cols) :
                       ContainsAny(Upper(df.cols[j]), RegistryKeywords)})
    IN IF registry_columns # <<>> /\ ~HasCol(df, s_REGISTRY_ID)
       THEN Rename(df, df.cols[registry_columns[1]], s_REGISTRY_ID)
       ELSE df

CleanDataframe(df) ==
    RenameRegistryColumn(StandardizeNames(DropEmptyColumns(DropEmptyRows(df))))

(***************************************************************************)
(* Field normalisation                                                     *)
(***************************************************************************)
\* the text of a number: [-]digits is an int, [-]digits.0 a float
ParseNum(s) ==
    LET neg == s # <<>> /\ s[1] = "-"
        body == IF neg THEN Tail(s) ELSE s
        sign == IF neg THEN 0 - 1 ELSE 1
    IN IF AllDigits(body) THEN Int_(sign * StrToNat(body))
       ELSE IF /\ Len(body) >= 3
               /\ EndsWith(body, <<".","0">>)
               /\ AllDigits(SubSeq(body, 1, Len(body) - 2))
            THEN Flt(sign * StrToNat(SubSeq(body, 1, Len(body) - 2)))
            ELSE Null

\* pd.to_numeric(value, errors='coerce')
ToNumeric(c) ==
    CASE IsNum(c) -> c
      [] c.k = "str" -> ParseNum(c.s)
      [] OTHER -> Null

AGE_MIN == 0
AGE_MAX == 150

\* Faulty variant: the bounds 0 and 150 themselves are rejected
AgeInRangeExclusive(c) ==
    IF IsNum(c) /\ (c.n <= AGE_MIN \/ c.n >= AGE_MAX) THEN Null ELSE c

\* df.loc[(df[age_col] < 0) | (df[age_col] > 150), age_col] = np.nan
AgeInRange(c) ==
    IF IsNum(c) /\ (c.n < AGE_MIN \/ c.n > AGE_MAX) THEN Null ELSE c

\* Faulty variant: the fallback takes any name containing AGE
AgeColumnAnyAge(df) ==
    IF HasCol(df, s_AGE) THEN ColIndex(df, s_AGE)
    ELSE LET exact == IdxSeq({j \in 1..Len(df.cols) :
                                 \/ Upper(df.cols[j]) = s_AGE
                                 \/ EndsWith(Upper(df.cols[j]), <<" ">> \o s_AGE)})
             fallback == IdxSeq({j \in 1..Len(df.cols) :
                                    Contains(Upper(df.cols[j]), s_AGE)})
             age_columns == IF exact # <<>> THEN exact ELSE fallback
         IN IF age_columns # <<>> THEN age_columns[1] ELSE 0

\* the column _process_age_column selects: 0 when there is none
AgeColumn(df) ==
    IF HasCol(df, s_AGE) THEN ColIndex(df, s_AGE)
    ELSE LET exact == IdxSeq({j \in 1..Len(df.cols) :
                                 \/ Upper(df.cols[j]) = s_AGE
                                 \/ EndsWith(Upper(df.cols[j]), <<" ">> \o s_AGE)})
             fallback == IdxSeq({j \in 1..Len(df.cols) :
                                    /\ Contains(Upper(df.cols[j]), s_AGE)
                                    /\ ~Contains(Upper(df.cols[j]), s_TRIAGE)})
             age_columns == IF exact # <<>> THEN exact ELSE fallback
         IN IF age_columns # <<>> THEN age_columns[1] ELSE 0

ProcessAgeColumn(df) ==
    LET j == AgeColumn(df)
    IN IF j = 0 THEN df
       ELSE LET numeric == Upcast([i \in 1..Len(df.rows) |->
                                      ToNumeric(df.rows[i][j])])
                ranged == Upcast([i \in 1..Len(df.rows) |->
                                     AgeInRange(numeric[i])])
                out == SetColumn(df, j, ranged)
            IN IF df.cols[j] # s_AGE
               THEN Rename(out, df.cols[j], s_AGE)
               ELSE out

\* Faulty variant: the entry 'MALE': 'MALE' written as 'MALE': '1'
GenderLookupInverted(s) ==
    IF s = <<"M","A","L","E">> THEN <<<<"1">>>>
    ELSE IF \E p \in GenderMapping : p[1] = s
    THEN <<(CHOOSE p \in GenderMapping : p[1] = s)[2]>>
    ELSE <<>>

\* gender_mapping.get(s): <<>> when s is no key
GenderLookup(s) ==
    IF \E p \in GenderMapping : p[1] = s
    THEN <<(CHOOSE p \in GenderMapping : p[1] = s)[2]>>
    ELSE <<>>

\* Faulty variant: .map(gender_mapping) without the .fillna(...)
NormalizeGenderNoFill(c) ==
    LET stripped == Strip(Str(c))
        mapped == GenderLookup(Upper(stripped))
    IN IF mapped # <<>> THEN Txt(mapped[1]) ELSE Null

\* Faulty variant: an empty cell stays empty
NormalizeGenderKeepNull(c) ==
    LET stripped == Strip(Str(c))
        mapped == GenderLookup(Upper(stripped))
    IN IF IsNull(c) THEN Null
       ELSE IF mapped # <<>> THEN Txt(mapped[1]) ELSE Txt(Upper(stripped))

\* one cell through astype(str).str.strip(), then
\* .str.upper().map(gender_mapping).fillna(.str.upper())
NormalizeGender(c) ==
    LET stripped == Strip(Str(c))
        mapped == GenderLookup(Upper(stripped))
    IN IF mapped # <<>> THEN Txt(mapped[1]) ELSE Txt(Upper(stripped))

\* the column _process_gender_column selects: 0 when there is none
GenderColumn(df) ==
    LET gender_columns ==
            IdxSeq({j \in 1..Len(df.cols) :
                       ContainsAny(Upper(df.cols[j]), GenderKeywords)})
    IN IF gender_columns # <<>> THEN gender_columns[1] ELSE 0

ProcessGenderColumn(df) ==
    LET j == GenderColumn(df)
    IN IF j = 0 THEN df
       ELSE LET out == SetColumn(df, j,
                           [i \in 1..Len(df.rows) |->
                               NormalizeGender(df.rows[i][j])])
            IN IF df.cols[j] # s_GENDER
               THEN Rename(out, df.cols[j], s_GENDER)
               ELSE out

\* text of the form dddd-dd-dd
IsDateText(s) ==
    /\ Len(s) = 10
    /\ s[5] = "-" /\ s[8] = "-"
    /\ \A i \in {1, 2, 3, 4, 6, 7, 9, 10} : IsDigit(s[i])

EPOCH == <<"1","9","7","0","-","0","1","-","0","1">>

\* pd.to_datetime(value, errors='coerce'); a number counts from the epoch
\* (its sub-day part is not kept here)
ToDatetime(c) ==
    CASE c.k = "date" -> c
      [] c.k = "str" -> IF IsDateText(Strip(c.s)) THEN Date(Strip(c.s)) ELSE NaT
      [] IsNum(c) -> Date(EPOCH)
      [] OTHER -> NaT

ProcessDateColumns(df) ==
    LET date_columns == {j \in 1..Len(df.cols) :
                            ContainsAny(Upper(df.cols[j]), DateKeywords)}
    IN Table(df.cols,
             [i \in 1..Len(df.rows) |->
                 [j \in 1..Len(df.cols) |->
                     IF j \in date_columns THEN ToDatetime(df.rows[i][j])
                     ELSE df.rows[i][j]]])

\* astype(str).str.strip().str.upper(), then 'NAN' back to NaN
NormalizeDiagnosis(c) ==
    LET text == Upper(Strip(Str(c)))
    IN IF text = <<"N","A","N">> THEN Null ELSE Txt(text)

ProcessDiagnosisColumns(df) ==
    LET diagnosis_columns ==
            {j \in 1..Len(df.cols) :
                ContainsAny(Upper(df.cols[j]), DiagnosisColumnKeywords)}
    IN Table(df.cols,
             [i \in 1..Len(df.rows) |->
                 [j \in 1..Len(df.cols) |->
                     IF j \in diagnosis_columns
                     THEN NormalizeDiagnosis(df.rows[i][j])
                     ELSE df.rows[i][j]]])

(***************************************************************************)
(* _validate_patient_data, _validate_diagnosis_data                        *)
(***************************************************************************)
\* Faulty variant: astype(str) without the dropna(subset=['REGISTRY ID'])
IdentifierRowsKeepNull(df) ==
    LET j == ColIndex(df, s_REGISTRY_ID)
    IN SetColumn(df, j, [i \in 1..Len(df.rows) |-> Txt(Str(df.rows[i][j]))])

\* dropna(subset=['REGISTRY ID']) and astype(str) of the identifier
IdentifierRows(df) ==
    LET j == ColIndex(df, s_REGISTRY_ID)
        kept == DropnaSubset(df, {j})
    IN SetColumn(kept, j,
                 [i \in 1..Len(kept.rows) |-> Txt(Str(kept.rows[i][j]))])

\* None stands for the ValueError of a missing identifier column
ValidatePatientData(df) ==
    IF ~HasCol(df, s_REGISTRY_ID) THEN None
    ELSE ProcessDateColumns(ProcessGenderColumn(ProcessAgeColumn(
             IdentifierRows(df))))

ValidateDiagnosisData(df) ==
    IF ~HasCol(df, s_REGISTRY_ID) THEN None
    ELSE ProcessDiagnosisColumns(ProcessDateColumns(IdentifierRows(df)))

(***************************************************************************)
(* _merge_data                                                             *)
(***************************************************************************)
UpcastTable(df) ==
    Table(df.cols,
          [i \in 1..Len(df.rows) |->
              [j \in 1..Len(df.cols) |-> Upcast(Column(df, j))[i]]])

\* a datetime64 column: its missing value is NaT
IsDatetimeColumn(column) ==
    /\ column # <<>>
    /\ \A i \in 1..Len(column) : column[i].k \in {"date", "nat"}

\* the non-key columns of the right table, in order
RightColumns(patient) ==
    IdxSeq({j \in 1..Len(patient.cols) : patient.cols[j] # s_REGISTRY_ID})

\* Faulty variant: how='inner', a left row without a match is dropped
JoinRowInner(diagnosis, patient, i) ==
    LET kd == ColIndex(diagnosis, s_REGISTRY_ID)
        kp == ColIndex(patient, s_REGISTRY_ID)
        right == RightColumns(patient)
        hits == IdxSeq({r \in 1..Len(patient.rows) :
                           patient.rows[r][kp] = diagnosis.rows[i][kd]})
    IN [x \in 1..Len(hits) |->
           diagnosis.rows[i] \o Pick(patient.rows[hits[x]], right)]

\* the rows the left join makes of row i of the left table
JoinRow(diagnosis, patient, i) ==
    LET kd == ColIndex(diagnosis, s_REGISTRY_ID)
        kp == ColIndex(patient, s_REGISTRY_ID)
        right == RightColumns(patient)
        hits == IdxSeq({r \in 1..Len(patient.rows) :
                           patient.rows[r][kp] = diagnosis.rows[i][kd]})
        missing == [x \in 1..Len(right) |->
                       IF IsDatetimeColumn(Column(patient, right[x]))
                       THEN NaT ELSE Null]
    IN IF hits = <<>> THEN <<diagnosis.rows[i] \o missing>>
       ELSE [x \in 1..Len(hits) |->
                diagnosis.rows[i] \o Pick(patient.rows[hits[x]], right)]

RECURSIVE JoinRows(_, _, _)
JoinRows(diagnosis, patient, i) ==
    IF i > Len(diagnosis.rows) THEN <<>>
    ELSE JoinRow(diagnosis, patient, i) \o JoinRows(diagnosis, patient, i + 1)

\* diagnosis_data.merge(patient_data, on='REGISTRY ID', how='left',
\*                      suffixes=('_DIAG', '_PATIENT'))
LeftMerge(diagnosis, patient) ==
    LET right == RightColumns(patient)
        left_cols == [j \in 1..Len(diagnosis.cols) |->
                         IF /\ diagnosis.cols[j] # s_REGISTRY_ID
                            /\ HasCol(patient, diagnosis.cols[j])
                         THEN diagnosis.cols[j] \o SUFFIX_DIAG
                         ELSE diagnosis.cols[j]]
        right_cols == [x \in 1..Len(right) |->
                          IF HasCol(diagnosis, patient.cols[right[x]])
                          THEN patient.cols[right[x]] \o SUFFIX_PATIENT
                          ELSE patient.cols[right[x]]]
    IN UpcastTable(Table(left_cols \o right_cols,
                         JoinRows(diagnosis, patient, 1)))

\* matched_diagnoses: len(merged_data.dropna(subset=[the _PATIENT columns]))
MatchedDiagnoses(merged) ==
    Len(DropnaSubset(merged,
                     {j \in 1..Len(merged.cols) :
                         EndsWith(merged.cols[j], SUFFIX_PATIENT)}).rows)

\* _merge_data: merged is None when the empty-join ValueError is raised
MergeData(patient, diagnosis) ==
    LET merged == LeftMerge(diagnosis, patient)
    IN IF merged.rows = <<>>
       THEN [merged |-> None, report |-> None]
       ELSE [merged |-> merged,
             report |-> <<MatchedDiagnoses(merged), Len(diagnosis.rows)>>]

(***************************************************************************)
(* Uploaded workbooks                                                      *)
(***************************************************************************)
MaxRows == 2
MaxSheets == 3

PatientHeaderA ==
    << <<"R","E","G","I","S","T","R","Y"," ","I","D">>,
       <<"A","G","E">>,
       <<"S","E","X">> >>

PatientRowsA ==
    { <<Txt(<<"A","1">>), Txt(<<"3","4">>), Txt(<<"M">>)>>,
      <<Txt(<<"A","1">>), Int_(200), Null>>,
      <<Null, Int_(34), Txt(<<" ","f"," ">>)>>,
      <<Txt(<<"B","2">>), Txt(<<"a","b","c">>), Txt(<<"3",".","0">>)>> }

PatientHeaderB ==
    << <<" ","p","a","t","i","e","n","t","_","i","d">>,
       <<"T","r","i","a","g","e"," ","L","e","v","e","l">>,
       <<"P","a","t","i","e","n","t"," ","A","g","e">>,
       <<"V","i","s","i","t"," ","D","a","t","e">> >>

PatientRowsB ==
    { <<Int_(1), Int_(2), Int_(70), Txt(<<"2","0","2","4","-","0","1","-","0","5">>)>>,
      <<Null, Null, Null, Null>>,
      <<Int_(2), Null, Int_(-1), Txt(<<"s","o","o","n">>)>> }

PatientHeaderC ==
    << <<"N","a","m","e">>,
       <<"A","g","e">> >>

PatientRowsC ==
    { <<Txt(<<"A","n","n">>), Int_(34)>>,
      <<Null, Null>> }

DiagnosisHeaderA ==
    << <<"R","E","G","I","S","T","R","Y"," ","I","D">>,
       <<"D","I","A","G","N","O","S","I","S">> >>

DiagnosisRowsA ==
    { <<Txt(<<"A","1">>), Txt(<<"f","l","u">>)>>,
      <<Txt(<<"B","2">>), Txt(<<"c","o","l","d">>)>>,
      <<Null, Txt(<<" ","x"," ">>)>>,
      <<Txt(<<"C","3">>), Null>> }

DiagnosisHeaderB ==
    << <<"R","e","g","i","s","t","r","y"," ","I","d"," ">>,
       <<"C","o","n","d","i","t","i","o","n">>,
       <<"V","i","s","i","t"," ","D","a","t","e">> >>

DiagnosisRowsB ==
    { <<Int_(1), Txt(<<"f","l","u">>), Txt(<<"2","0","2","4","-","0","2","-","0","1">>)>>,
      <<Int_(2), Null, Null>>,
      <<Null, Txt(<<"n","a","n">>), Txt(<<"n","/","a">>)>> }

DiagnosisHeaderC ==
    << <<"D","i","a","g","n","o","s","i","s">>,
       <<"D","e","p","t">> >>

DiagnosisRowsC ==
    { <<Txt(<<"f","l","u">>), Txt(<<"E","R">>)>>,
      <<Null, Null>> }

SheetNames ==
    { <<"P","a","t","i","e","n","t","s">>,
      <<"D","i","a","g","n","o","s","i","s">>,
      <<"p","a","t","i","e","n","t","_","d","e","t","a","i","l","s">>,
      <<"d","i","a","g","n","o","s","i","s","_","d","e","t","a","i","l","s">>,
      <<"S","h","e","e","t","1">>,
      <<"P","a","t","i","e","n","t","D","i","a","g">>,
      <<"D","I","A","G">> }

UploadedSheetNames ==
    { <<<<"P","a","t","i","e","n","t","s">>, <<"D","i","a","g","n","o","s","i","s">>>>,
      <<<<"d","i","a","g","n","o","s","i","s","_","d","e","t","a","i","l","s">>, <<"p","a","t","i","e","n","t","_","d","e","t","a","i","l","s">>>>,
      <<<<"P","a","t","i","e","n","t","D","i","a","g">>>>,
      <<<<"S","h","e","e","t","1">>, <<"P","a","t","i","e","n","t","s">>>>,
      <<<<"S","h","e","e","t","1">>, <<"D","I","A","G">>>>,
      <<<<"S","h","e","e","t","1">>>> }

\* the sheets with the given header and at most MaxRows of the given rows
SheetsOf(header, rowset) ==
    {Table(header, rows) :
        rows \in UNION {[1..n -> rowset] : n \in 0..MaxRows}}

PatientSheets ==
    SheetsOf(PatientHeaderA, PatientRowsA)
        \cup SheetsOf(PatientHeaderB, PatientRowsB)
        \cup SheetsOf(PatientHeaderC, PatientRowsC)

DiagnosisSheets ==
    SheetsOf(DiagnosisHeaderA, DiagnosisRowsA)
        \cup SheetsOf(DiagnosisHeaderB, DiagnosisRowsB)
        \cup SheetsOf(DiagnosisHeaderC, DiagnosisRowsC)

\* pd.read_excel: the sheet with the dtype pandas infers for each column
ReadExcel(sheet) == UpcastTable(sheet)

(***************************************************************************)
(* process_excel_file                                                      *)
(***************************************************************************)
PipelineIdle ==
    /\ pc = "idle"
    /\ sheet_names = <<>>
    /\ patient_sheet = NoSheet
    /\ diagnosis_sheet = NoSheet
    /\ raw_patient = None
    /\ raw_diagnosis = None
    /\ patient_df = None
    /\ diagnosis_df = None
    /\ merged_df = None
    /\ match_report = None
    /\ patient_data = None
    /\ diagnosis_data = None
    /\ merged_data = None
    /\ error = "none"

FunctionsIdle ==
    /\ fs_in = None
    /\ fs_out = None
    /\ g_in = None
    /\ g_out = None
    /\ g_again = None
    /\ f_in = None
    /\ f_out = None

\* no Streamlit session exists
SessionsIdle ==
    /\ session_state = None
    /\ heap = None
    /\ request = None

Init == PipelineIdle /\ FunctionsIdle /\ SessionsIdle

\* pd.ExcelFile(uploaded_file).sheet_names
OpenWorkbook ==
    /\ pc = "idle"
    /\ \E names \in UploadedSheetNames : sheet_names' = names
    /\ pc' = "find_sheets"
    /\ UNCHANGED <<patient_sheet, diagnosis_sheet, raw_patient, raw_diagnosis,
                   patient_df, diagnosis_df, merged_df, match_report,
                   patient_data, diagnosis_data, merged_data, error,
                   fs_in, fs_out, g_in, g_out, g_again, f_in, f_out,
                   session_state, heap, request>>

\* Faulty variant: the diagnosis sheet is not checked
FindSheetsPatientOnly ==
    /\ pc = "find_sheets"
    /\ patient_sheet' = FindSheet(sheet_names, PatientKeywords)
    /\ diagnosis_sheet' = FindSheet(sheet_names, DiagnosisKeywords)
    /\ IF patient_sheet' = NoSheet
       THEN pc' = "failed" /\ error' = "patient_sheet_not_found"
       ELSE pc' = "read_sheets" /\ error' = error
    /\ UNCHANGED <<sheet_names, raw_patient, raw_diagnosis,
                   patient_df, diagnosis_df, merged_df, match_report,
                   patient_data, diagnosis_data, merged_data,
                   fs_in, fs_out, g_in, g_out, g_again, f_in, f_out,
                   session_state, heap, request>>

\* Faulty variant: one sheet may not serve both roles
FindSheetsDistinct ==
    /\ pc = "find_sheets"
    /\ patient_sheet' = FindSheet(sheet_names, PatientKeywords)
    /\ diagnosis_sheet' = FindSheet(sheet_names, DiagnosisKeywords)
    /\ IF patient_sheet' = NoSheet
       THEN pc' = "failed" /\ error' = "patient_sheet_not_found"
       ELSE IF diagnosis_sheet' = NoSheet \/ diagnosis_sheet' = patient_sheet'
            THEN pc' = "failed" /\ error' = "diagnosis_sheet_not_found"
            ELSE pc' = "read_sheets" /\ error' = error
    /\ UNCHANGED <<sheet_names, raw_patient, raw_diagnosis,
                   patient_df, diagnosis_df, merged_df, match_report,
                   patient_data, diagnosis_data, merged_data,
                   fs_in, fs_out, g_in, g_out, g_again, f_in, f_out,
                   session_state, heap, request>>

\* the two _find_sheet calls and the two "if not ..._sheet: raise"
FindSheets ==
    /\ pc = "find_sheets"
    /\ patient_sheet' = FindSheet(sheet_names, PatientKeywords)
    /\ diagnosis_sheet' = FindSheet(sheet_names, DiagnosisKeywords)
    /\ IF patient_sheet' = NoSheet
       THEN pc' = "failed" /\ error' = "patient_sheet_not_found"
       ELSE IF diagnosis_sheet' = NoSheet
            THEN pc' = "failed" /\ error' = "diagnosis_sheet_not_found"
            ELSE pc' = "read_sheets" /\ error' = error
    /\ UNCHANGED <<sheet_names, raw_patient, raw_diagnosis,
                   patient_df, diagnosis_df, merged_df, match_report,
                   patient_data, diagnosis_data, merged_data,
                   fs_in, fs_out, g_in, g_out, g_again, f_in, f_out,
                   session_state, heap, request>>

\* the two pd.read_excel calls; one sheet read twice has one content
ReadSheets ==
    /\ pc = "read_sheets"
    /\ \E p \in PatientSheets \cup DiagnosisSheets,
          d \in PatientSheets \cup DiagnosisSheets :
          /\ IF patient_sheet = diagnosis_sheet
             THEN p = d
             ELSE p \in PatientSheets /\ d \in DiagnosisSheets
          /\ raw_patient' = ReadExcel(p)
          /\ raw_diagnosis' = ReadExcel(d)
    /\ patient_df' = raw_patient'
    /\ diagnosis_df' = raw_diagnosis'
    /\ pc' = "clean"
    /\ UNCHANGED <<sheet_names, patient_sheet, diagnosis_sheet,
                   merged_df, match_report,
                   patient_data, diagnosis_data, merged_data, error,
                   fs_in, fs_out, g_in, g_out, g_again, f_in, f_out,
                   session_state, heap, request>>

\* the two _clean_dataframe calls
Clean ==
    /\ pc = "clean"
    /\ patient_df' = CleanDataframe(patient_df)
    /\ diagnosis_df' = CleanDataframe(diagnosis_df)
    /\ pc' = "validate_patient"
    /\ UNCHANGED <<sheet_names, patient_sheet, diagnosis_sheet, raw_patient,
                   raw_diagnosis, merged_df, match_report,
                   patient_data, diagnosis_data, merged_data, error,
                   fs_in, fs_out, g_in, g_out, g_again, f_in, f_out,
                   session_state, heap, request>>

\* Faulty variant: self.patient_data is assigned as soon as the table is validated
ValidatePatientCommitting ==
    /\ pc = "validate_patient"
    /\ LET validated == ValidatePatientData(patient_df)
       IN IF validated = None
          THEN /\ pc' = "failed"
               /\ error' = "patient_missing_identifier"
               /\ patient_df' = patient_df
               /\ patient_data' = patient_data
          ELSE /\ pc' = "validate_diagnosis"
               /\ error' = error
               /\ patient_df' = validated
               /\ patient_data' = validated
    /\ UNCHANGED <<sheet_names, patient_sheet, diagnosis_sheet, raw_patient,
                   raw_diagnosis, diagnosis_df, merged_df, match_report,
                   diagnosis_data, merged_data,
                   fs_in, fs_out, g_in, g_out, g_again, f_in, f_out,
                   session_state, heap, request>>

ValidatePatient ==
    /\ pc = "validate_patient"
    /\ LET validated == ValidatePatientData(patient_df)
       IN IF validated = None
          THEN /\ pc' = "failed"
               /\ error' = "patient_missing_identifier"
               /\ patient_df' = patient_df
          ELSE /\ pc' = "validate_diagnosis"
               /\ error' = error
               /\ patient_df' = validated
    /\ UNCHANGED <<sheet_names, patient_sheet, diagnosis_sheet, raw_patient,
                   raw_diagnosis, diagnosis_df, merged_df, match_report,
                   patient_data, diagnosis_data, merged_data,
                   fs_in, fs_out, g_in, g_out, g_again, f_in, f_out,
                   session_state, heap, request>>

\* Faulty variant: a diagnosis table without the identifier column is let through
ValidateDiagnosisUnchecked ==
    /\ pc = "validate_diagnosis"
    /\ LET validated == ValidateDiagnosisData(diagnosis_df)
       IN /\ pc' = "merge"
          /\ error' = error
          /\ diagnosis_df' = IF validated = None THEN diagnosis_df
                             ELSE validated
    /\ UNCHANGED <<sheet_names, patient_sheet, diagnosis_sheet, raw_patient,
                   raw_diagnosis, patient_df, merged_df, match_report,
                   patient_data, diagnosis_data, merged_data,
                   fs_in, fs_out, g_in, g_out, g_again, f_in, f_out,
                   session_state, heap, request>>

ValidateDiagnosis ==
    /\ pc = "validate_diagnosis"
    /\ LET validated == ValidateDiagnosisData(diagnosis_df)
       IN IF validated = None
          THEN /\ pc' = "failed"
               /\ error' = "diagnosis_missing_identifier"
               /\ diagnosis_df' = diagnosis_df
          ELSE /\ pc' = "merge"
               /\ error' = error
               /\ diagnosis_df' = validated
    /\ UNCHANGED <<sheet_names, patient_sheet, diagnosis_sheet, raw_patient,
                   raw_diagnosis, patient_df, merged_df, match_report,
                   patient_data, diagnosis_data, merged_data,
                   fs_in, fs_out, g_in, g_out, g_again, f_in, f_out,
                   session_state, heap, request>>

Merge ==
    /\ pc = "merge"
    /\ LET result == MergeData(patient_df, diagnosis_df)
       IN /\ merged_df' = result.merged
          /\ match_report' = result.report
          /\ IF result.merged = None
             THEN pc' = "failed" /\ error' = "empty_join"
             ELSE pc' = "store" /\ error' = error
    /\ UNCHANGED <<sheet_names, patient_sheet, diagnosis_sheet, raw_patient,
                   raw_diagnosis, patient_df, diagnosis_df,
                   patient_data, diagnosis_data, merged_data,
                   fs_in, fs_out, g_in, g_out, g_again, f_in, f_out,
                   session_state, heap, request>>

\* self.patient_data = ...; self.diagnosis_data = ...; self.merged_data = ...;
\* return patient_data, diagnosis_data, merged_data
StoreLocals ==
    [patient_data |-> patient_df,
     diagnosis_data |-> diagnosis_df,
     merged_data |-> merged_df]

Store ==
    /\ pc = "store"
    /\ patient_data' = StoreLocals.patient_data
    /\ diagnosis_data' = StoreLocals.diagnosis_data
    /\ merged_data' = StoreLocals.merged_data
    /\ pc' = "done"
    /\ UNCHANGED <<sheet_names, patient_sheet, diagnosis_sheet, raw_patient,
                   raw_diagnosis, patient_df, diagnosis_df, merged_df,
                   match_report, error, fs_in, fs_out, g_in, g_out, g_again,
                   f_in, f_out, session_state, heap, request>>

Next ==
    \/ OpenWorkbook
    \/ FindSheets
    \/ ReadSheets
    \/ Clean
    \/ ValidatePatient
    \/ ValidateDiagnosis
    \/ Merge
    \/ Store

Spec == Init /\ [][Next]_vars

(***************************************************************************)
(* Stand-alone calls of _find_sheet and _process_gender_column             *)
(***************************************************************************)
\* the sequences of at most n distinct sheet names
SheetNameLists(n) ==
    {names \in UNION {[1..m -> SheetNames] : m \in 0..n} :
        \A i, j \in 1..Len(names) : i # j => names[i] # names[j]}

Reverse(s) == [i \in 1..Len(s) |-> s[Len(s) + 1 - i]]

KeywordLists ==
    {PatientKeywords, DiagnosisKeywords,
     Reverse(PatientKeywords), Reverse(DiagnosisKeywords)}

InitFindSheet ==
    /\ PipelineIdle
    /\ fs_in \in [sheet_names : SheetNameLists(MaxSheets),
                  keywords : KeywordLists]
    /\ fs_out = None
    /\ g_in = None
    /\ g_out = None
    /\ g_again = None
    /\ f_in = None
    /\ f_out = None
    /\ SessionsIdle

CallFindSheet ==
    /\ fs_in # None
    /\ fs_out = None
    /\ fs_out' = [sheet |-> FindSheet(fs_in.sheet_names, fs_in.keywords)]
    /\ UNCHANGED <<pc, sheet_names, patient_sheet, diagnosis_sheet,
                   raw_patient, raw_diagnosis, patient_df, diagnosis_df,
                   merged_df, match_report, patient_data, diagnosis_data,
                   merged_data, error, fs_in, g_in, g_out, g_again,
                   f_in, f_out, session_state, heap, request>>

SpecFindSheet == InitFindSheet /\ [][CallFindSheet]_vars

UnmappedGenderTexts ==
    { <<"P","R","E","F","E","R"," ","N","O","T"," ","T","O"," ","S","A","Y">>,
      <<"X">>,
      <<"M","A","L","E","S">>,
      <<"4">>,
      <<"N","A","N">>,
      <<>> }

GenderTexts == {p[1] : p \in GenderMapping} \cup UnmappedGenderTexts

\* a text as typed: as is, in lower case, padded with blanks
Typed(s) ==
    {s, Lower(s), <<" ">> \o s, s \o <<" ">>, <<" ">> \o Lower(s) \o <<" ">>}

GenderCells ==
    {Null, NaT, Int_(1), Int_(2), Int_(3), Int_(4), Flt(1), Flt(2), Flt(3)}
        \cup {Txt(v) : v \in UNION {Typed(s) : s \in GenderTexts}}

GenderHeaders ==
    { <<"S","E","X">>,
      <<"G","E","N","D","E","R">>,
      <<"P","a","t","i","e","n","t"," ","G","e","n","d","e","r">> }

InitGender ==
    /\ PipelineIdle
    /\ fs_in = None
    /\ fs_out = None
    /\ g_in \in {Table(<<h>>, <<<<c>>>>) : h \in GenderHeaders, c \in GenderCells}
    /\ g_out = None
    /\ g_again = None
    /\ f_in = None
    /\ f_out = None
    /\ SessionsIdle

CallProcessGender ==
    /\ g_in # None
    /\ g_out = None
    /\ g_out' = ProcessGenderColumn(g_in)
    /\ UNCHANGED <<pc, sheet_names, patient_sheet, diagnosis_sheet,
                   raw_patient, raw_diagnosis, patient_df, diagnosis_df,
                   merged_df, match_report, patient_data, diagnosis_data,
                   merged_data, error, fs_in, fs_out, g_in, g_again,
                   f_in, f_out, session_state, heap, request>>

\* _process_gender_column called on its own result
CallProcessGenderAgain ==
    /\ g_out # None
    /\ g_again = None
    /\ g_again' = ProcessGenderColumn(g_out)
    /\ UNCHANGED <<pc, sheet_names, patient_sheet, diagnosis_sheet,
                   raw_patient, raw_diagnosis, patient_df, diagnosis_df,
                   merged_df, match_report, patient_data, diagnosis_data,
                   merged_data, error, fs_in, fs_out, g_in, g_out,
                   f_in, f_out, session_state, heap, request>>

NextGender == CallProcessGender \/ CallProcessGenderAgain

SpecGender == InitGender /\ [][NextGender]_vars

(***************************************************************************)
(* Properties                                                              *)
(***************************************************************************)
MergeDone == pc \in {"store", "done"}

\* the identifier values of a validated table
IdsOf(df) ==
    {df.rows[i][ColIndex(df, s_REGISTRY_ID)] : i \in 1..Len(df.rows)}

IdentifiersOverlap == IdsOf(diagnosis_df) \cap IdsOf(patient_df) # {}

SheetErrors == {"patient_sheet_not_found", "diagnosis_sheet_not_found"}
IdentifierErrors == {"patient_missing_identifier", "diagnosis_missing_identifier"}

\* equal cells, an int and the float of the same value being the same number
SameValue(a, b) == a = b \/ (IsNum(a) /\ IsNum(b) /\ a.n = b.n)

\* C1: whenever the validated tables share an identifier, the merged table has
\* exactly as many rows as the diagnosis table.
C1_RowCountPreserved ==
    (MergeDone /\ IdentifiersOverlap)
        => Len(merged_df.rows) = Len(diagnosis_df.rows)

\* C2: _merge_data raises the empty-join error if and only if no identifier of
\* the diagnosis table occurs in the patient table.
C2_EmptyJoinIffNoOverlap ==
    (MergeDone \/ error = "empty_join")
        => (error = "empty_join" <=> ~IdentifiersOverlap)

\* the position in a merged row of the patient column j
PatientSide(j) ==
    LET kp == ColIndex(patient_df, s_REGISTRY_ID)
    IN Len(diagnosis_df.cols) + (IF j > kp THEN j - 1 ELSE j)

\* merged row r continues diagnosis row i
Continues(r, i) ==
    \A j \in 1..Len(diagnosis_df.cols) :
        merged_df.rows[r][j] = diagnosis_df.rows[i][j]

\* C3: the merge is a left join driven by the diagnosis table.  Every merged
\* row keeps the values of a diagnosis row, carries the values of a validated
\* patient row with the same identifier when there is one, and is null in
\* every patient-side column when there is none; every diagnosis row is kept.
C3_LeftJoin ==
    MergeDone =>
        LET kd == ColIndex(diagnosis_df, s_REGISTRY_ID)
            kp == ColIndex(patient_df, s_REGISTRY_ID)
            side == {j \in 1..Len(patient_df.cols) : j # kp}
            same(i) == {x \in 1..Len(patient_df.rows) :
                           patient_df.rows[x][kp] = diagnosis_df.rows[i][kd]}
        IN /\ Len(merged_df.cols)
                  = Len(diagnosis_df.cols) + Len(patient_df.cols) - 1
           /\ \A r \in 1..Len(merged_df.rows) :
                  \E i \in 1..Len(diagnosis_df.rows) :
                      /\ Continues(r, i)
                      /\ IF same(i) = {}
                         THEN \A j \in side :
                                  IsNull(merged_df.rows[r][PatientSide(j)])
                         ELSE \E x \in same(i) : \A j \in side :
                                  SameValue(merged_df.rows[r][PatientSide(j)],
                                            patient_df.rows[x][j])
           /\ \A i \in 1..Len(diagnosis_df.rows) :
                  \E r \in 1..Len(merged_df.rows) : Continues(r, i)

\* C3 witness: the workbook of the example, A1 matched and B2 unmatched.
C3_Witness ==
    /\ pc = "done"
    /\ merged_data.cols = <<s_REGISTRY_ID, <<"D","I","A","G","N","O","S","I","S">>, s_AGE, s_GENDER>>
    /\ merged_data.rows =
           << <<Txt(<<"A","1">>), Txt(<<"F","L","U">>), Flt(34), Txt(<<"M","A","L","E">>)>>,
              <<Txt(<<"B","2">>), Txt(<<"C","O","L","D">>), Null, Null>> >>

\* the merged rows with at least one non-null patient-side column
MatchedRows ==
    {r \in 1..Len(merged_df.rows) :
        \E j \in (Len(diagnosis_df.cols) + 1)..Len(merged_df.cols) :
            ~IsNull(merged_df.rows[r][j])}

\* C4: the match report is (m, t): t the number of merged rows, m the number
\* of merged rows with at least one non-null patient-side column.
C4_MatchReport ==
    MergeDone
        => match_report = <<Cardinality(MatchedRows), Len(merged_df.rows)>>

\* C5: process_excel_file never partially commits.  When it has raised, none
\* of the three fields is assigned; when it has returned, all three are
\* assigned and are the returned tables.
C5_NoPartialCommit ==
    /\ pc = "failed"
           => /\ patient_data = None
              /\ diagnosis_data = None
              /\ merged_data = None
    /\ pc = "done"
           => /\ patient_data = patient_df /\ patient_data # None
              /\ diagnosis_data = diagnosis_df /\ diagnosis_data # None
              /\ merged_data = merged_df /\ merged_data # None

\* C5 witness: the call raised after the patient table had been validated.
C5_Witness ==
    /\ pc = "failed"
    /\ error = "diagnosis_missing_identifier"
    /\ patient_df # None
    /\ HasCol(patient_df, s_GENDER)

\* the positions of the sheets whose lowercased name contains a keyword
MatchingSheets(names, keywords) ==
    LET lowered == [i \in 1..Len(names) |-> Lower(names[i])]
        wanted == [j \in 1..Len(keywords) |-> Lower(keywords[j])]
    IN {i \in 1..Len(names) :
           \E j \in 1..Len(keywords) : Contains(lowered[i], wanted[j])}

\* C6: _find_sheet returns the first sheet, in sheet order, whose lowercased
\* name contains some keyword of the list, and no sheet when none does.
C6_FirstSheetInOrder ==
    fs_out # None =>
        LET hits == MatchingSheets(fs_in.sheet_names, fs_in.keywords)
        IN IF hits = {} THEN fs_out.sheet = NoSheet
           ELSE \E i \in hits :
                    /\ \A h \in hits : i <= h
                    /\ fs_out.sheet = <<fs_in.sheet_names[i]>>

\* C6 witness: the sheet returned does not match the first keyword, and a
\* later sheet does.
C6_Witness ==
    /\ fs_out # None
    /\ fs_out.sheet # NoSheet
    /\ ~Contains(Lower(fs_out.sheet[1]), Lower(fs_in.keywords[1]))
    /\ \E k \in 1..Len(fs_in.sheet_names) :
           Contains(Lower(fs_in.sheet_names[k]), Lower(fs_in.keywords[1]))

\* for each sheet name and each role, whether the lowercased name contains a
\* keyword of the role
NameMatches ==
    [name \in SheetNames |->
        [keywords \in {PatientKeywords, DiagnosisKeywords} |->
            \E j \in 1..Len(keywords) :
                Contains(Lower(name), Lower(keywords[j]))]]

\* the positions of the uploaded workbook's sheets that match a role
RoleSheets(keywords) ==
    {i \in 1..Len(sheet_names) : NameMatches[sheet_names[i]][keywords]}

\* C7: process_excel_file fails with a sheet-not-found error, before any sheet
\* is read or cleaned, whenever a role has no matching sheet name, and goes
\* past sheet resolution only when both roles resolve.
C7_SheetNotFound ==
    pc \notin {"idle", "find_sheets"} =>
        LET resolved ==
                /\ RoleSheets(PatientKeywords) # {}
                /\ RoleSheets(DiagnosisKeywords) # {}
        IN /\ ~resolved <=> error \in SheetErrors
           /\ error \in SheetErrors
                  => /\ pc = "failed"
                     /\ raw_patient = None /\ raw_diagnosis = None
                     /\ patient_df = None /\ diagnosis_df = None
           /\ error \notin SheetErrors
                  => patient_sheet # NoSheet /\ diagnosis_sheet # NoSheet

\* C7 witness: the patient sheet was found and the diagnosis sheet was not.
C7_Witness ==
    /\ pc = "failed"
    /\ error = "diagnosis_sheet_not_found"
    /\ patient_sheet # NoSheet

\* C8: a cleaned patient or diagnosis table without a column named exactly
\* REGISTRY ID makes process_excel_file fail with a missing-identifier error,
\* no merge is attempted, and the patient table is checked first.
C8_MissingIdentifier ==
    (raw_patient # None /\ pc \notin {"clean", "validate_patient"}) =>
        LET patient_ok == HasCol(CleanDataframe(raw_patient), s_REGISTRY_ID)
            diagnosis_ok == HasCol(CleanDataframe(raw_diagnosis), s_REGISTRY_ID)
        IN /\ ~patient_ok => error = "patient_missing_identifier"
           /\ (patient_ok /\ ~diagnosis_ok /\ pc # "validate_diagnosis")
                  => error = "diagnosis_missing_identifier"
           /\ (patient_ok /\ diagnosis_ok) => error \notin IdentifierErrors
           /\ error \in IdentifierErrors
                  => pc = "failed" /\ merged_df = None /\ match_report = None

\* C8 witness: both tables lack the column and the patient error is raised.
C8_Witness ==
    /\ error = "patient_missing_identifier"
    /\ ~HasCol(CleanDataframe(raw_diagnosis), s_REGISTRY_ID)

\* the smallest member of a non-empty set of numbers
Least(S) == CHOOSE x \in S : \A y \in S : x <= y

\* the column of a sheet that cleaning names REGISTRY ID
RawIdentifierColumn(raw) ==
    LET live == {j \in 1..Len(raw.cols) :
                    \E i \in 1..Len(raw.rows) : ~IsNull(raw.rows[i][j])}
        named == {j \in live : Upper(Strip(raw.cols[j])) = s_REGISTRY_ID}
        alike == {j \in live :
                     ContainsAny(Upper(Strip(raw.cols[j])), RegistryKeywords)}
    IN IF named # {} THEN Least(named) ELSE Least(alike)

\* the texts of the non-empty identifier cells of a sheet, in row order
RawIdentifiers(raw) ==
    LET j == RawIdentifierColumn(raw)
        present == SelectSeq(Column(raw, j), LAMBDA c : ~IsNull(c))
    IN [i \in 1..Len(present) |-> Txt(Str(present[i]))]

IdColumn(df) == Column(df, ColIndex(df, s_REGISTRY_ID))

\* C9: in the three tables a successful process_excel_file returns, the
\* identifiers are exactly the non-empty identifier cells of the input sheet
\* (as text): no row has a null identifier and no row with an empty
\* identifier cell is kept.
C9_NonNullIdentifiers ==
    pc = "done" =>
        /\ IdColumn(patient_data) = RawIdentifiers(raw_patient)
        /\ IdColumn(diagnosis_data) = RawIdentifiers(raw_diagnosis)
        /\ \A T \in {patient_data, diagnosis_data, merged_data} :
               \A i \in 1..Len(T.rows) : ~IsNull(IdColumn(T)[i])
        /\ \A i \in 1..Len(merged_data.rows) :
               \E k \in 1..Len(RawIdentifiers(raw_diagnosis)) :
                   IdColumn(merged_data)[i] = RawIdentifiers(raw_diagnosis)[k]

\* C9 witness: both input sheets had a row with an empty identifier cell and
\* other cells filled.
C9_Witness ==
    /\ pc = "done"
    /\ \E i \in 1..Len(raw_patient.rows) :
           /\ IsNull(raw_patient.rows[i][RawIdentifierColumn(raw_patient)])
           /\ \E j \in 1..Len(raw_patient.cols) : ~IsNull(raw_patient.rows[i][j])
    /\ \E i \in 1..Len(raw_diagnosis.rows) :
           /\ IsNull(raw_diagnosis.rows[i][RawIdentifierColumn(raw_diagnosis)])
           /\ \E j \in 1..Len(raw_diagnosis.cols) :
                  ~IsNull(raw_diagnosis.rows[i][j])

\* the canonical value of a trimmed, uppercased gender text
Canonical(u) ==
    CASE u \in {<<"1">>, <<"1",".","0">>, <<"M">>, <<"M","A","L","E">>, <<"M","A","N">>} -> <<"M","A","L","E">>
      [] u \in {<<"2">>, <<"2",".","0">>, <<"F">>, <<"F","E","M","A","L","E">>, <<"W","O","M","A","N">>} -> <<"F","E","M","A","L","E">>
      [] u \in {<<"3">>, <<"3",".","0">>, <<"T">>, <<"T","R","A","N","S","G","E","N","D","E","R">>, <<"T","R","A","N","S">>} -> <<"T","R","A","N","S","G","E","N","D","E","R">>
      [] u \in {<<"O">>, <<"O","T","H","E","R">>, <<"O","T","H","E","R","S">>} -> <<"O","T","H","E","R">>
      [] OTHER -> u

\* C10: gender normalization is total.  Every cell becomes the canonical value
\* of its trimmed, uppercased text when that text is in the mapping's domain,
\* and that text itself otherwise; no row is lost and no cell is left empty.
C10_GenderTotal ==
    g_out # None =>
        /\ g_out.cols = <<s_GENDER>>
        /\ Len(g_out.rows) = Len(g_in.rows)
        /\ \A i \in 1..Len(g_in.rows) :
               g_out.rows[i][1]
                   = Txt(Canonical(Upper(Strip(Str(g_in.rows[i][1])))))

\* C10 witness: an unmapped value typed in lower case with blanks around it.
C10_Witness ==
    /\ g_out # None
    /\ g_in.rows[1][1] = Txt(<<" ","p","r","e","f","e","r"," ","n","o","t"," ","t","o"," ","s","a","y"," ">>)
    /\ g_out.rows[1][1] = Txt(<<"P","R","E","F","E","R"," ","N","O","T"," ","T","O"," ","S","A","Y">>)

\* the keys of gender_mapping
GenderDomain == {p[1] : p \in GenderMapping}

CanonicalGenders ==
    { <<"M","A","L","E">>, <<"F","E","M","A","L","E">>,
      <<"T","R","A","N","S","G","E","N","D","E","R">>, <<"O","T","H","E","R">> }

\* C11: gender normalization is idempotent on the mapping's domain.  When the
\* trimmed, uppercased text of a cell is a key of the mapping, normalizing the
\* normalized cell again gives the same cell, which is one of MALE, FEMALE,
\* TRANSGENDER, OTHER.
C11_GenderIdempotent ==
    g_again # None =>
        \A i \in 1..Len(g_in.rows) :
            Upper(Strip(Str(g_in.rows[i][1]))) \in GenderDomain =>
                /\ g_again.rows[i][1] = g_out.rows[i][1]
                /\ g_out.rows[i][1] \in {Txt(v) : v \in CanonicalGenders}

\* C11 witness: the code 'm' was normalized to MALE, and MALE again to MALE.
C11_Witness ==
    /\ g_again # None
    /\ g_in.rows[1][1] = Txt(<<"m">>)
    /\ g_out.rows[1][1] = Txt(<<"M","A","L","E">>)
    /\ g_again.rows[1][1] = Txt(<<"M","A","L","E">>)

(***************************************************************************)
(* Stand-alone calls of _process_age_column                                *)
(***************************************************************************)
MaxColumns == 3

\* the age texts pd.to_numeric reads as a number, with that number
NumericAgeTexts ==
    { <<<<"0">>, 0>>,
      <<<<"1","5","0">>, 150>>,
      <<<<"1","5","1">>, 151>>,
      <<<<"-","1">>, -1>>,
      <<<<"1","5","0",".","0">>, 150>>,
      <<<<"3","1">>, 31>>,
      <<<<"3","2">>, 32>>,
      <<<<"3","3">>, 33>>,
      <<<<"3","4">>, 34>> }

AgeCells ==
    {Null, Int_(0 - 1), Int_(0), Int_(1), Int_(34), Int_(149), Int_(150),
     Int_(151), Int_(200), Flt(0 - 1), Flt(0), Flt(150), Flt(151),
     Txt(<<"a","b","c">>),
     Txt(<<>>)}
        \cup {Txt(p[1]) : p \in NumericAgeTexts}

AgeHeaders ==
    { <<"A","G","E">>,
      <<"P","A","T","I","E","N","T"," ","A","G","E">> }

\* a single age column with at most MaxRows values
AgeValueTables ==
    {UpcastTable(Table(<<h>>, [i \in 1..Len(column) |-> <<column[i]>>])) :
        h \in AgeHeaders,
        column \in UNION {[1..k -> AgeCells] : k \in 1..MaxRows}}

\* column names of a cleaned table, as far as the age selection tells them apart
AgeSelectionNames ==
    { <<"A","G","E">>,
      <<"P","A","T","I","E","N","T"," ","A","G","E">>,
      <<"T","R","I","A","G","E"," ","L","E","V","E","L">>,
      <<"A","G","E"," ","G","R","O","U","P">>,
      <<"S","T","A","G","E">>,
      <<"N","A","M","E">>,
      <<"T","R","I","A","G","E"," ","A","G","E">> }

\* one row whose cell in column j is the text "3j"
AgeSelectionTables ==
    {Table(cols, <<[j \in 1..Len(cols) |-> Txt(<<"3">> \o NatToStr(j))]>>) :
        cols \in {h \in UNION {[1..k -> AgeSelectionNames] : k \in 1..MaxColumns} :
                     \A i, j \in 1..Len(h) : i # j => h[i] # h[j]}}

InitAge ==
    /\ PipelineIdle
    /\ SessionsIdle
    /\ fs_in = None
    /\ fs_out = None
    /\ g_in = None
    /\ g_out = None
    /\ g_again = None
    /\ f_in \in AgeValueTables \cup AgeSelectionTables
    /\ f_out = None

CallProcessAge ==
    /\ f_in # None
    /\ f_out = None
    /\ f_out' = ProcessAgeColumn(f_in)
    /\ UNCHANGED <<pc, sheet_names, patient_sheet, diagnosis_sheet,
                   raw_patient, raw_diagnosis, patient_df, diagnosis_df,
                   merged_df, match_report, patient_data, diagnosis_data,
                   merged_data, error, fs_in, fs_out, g_in, g_out, g_again,
                   f_in, session_state, heap, request>>

SpecAge == InitAge /\ [][CallProcessAge]_vars

\* the number an input age cell stands for: <<>> when it stands for none
AgeNumber(c) ==
    IF IsNum(c) THEN <<c.n>>
    ELSE IF c.k = "str" /\ \E p \in NumericAgeTexts : p[1] = c.s
    THEN <<(CHOOSE p \in NumericAgeTexts : p[1] = c.s)[2]>>
    ELSE <<>>

\* C12: age normalization.  A cell that stands for no number, or for a number
\* below 0 or above 150, becomes null; a cell that stands for a number from 0
\* to 150, both bounds included, keeps that number.
C12_AgeRange ==
    (f_out # None /\ AgeColumn(f_in) # 0) =>
        LET j == AgeColumn(f_in)
        IN \A i \in 1..Len(f_in.rows) :
               LET v == AgeNumber(f_in.rows[i][j])
                   out == f_out.rows[i][j]
               IN IF v = <<>> \/ (v # <<>> /\ (v[1] < 0 \/ v[1] > 150))
                  THEN out = Null
                  ELSE IsNum(out) /\ out.n = v[1]

\* C12 witness: a column with both bounds, normalized; 0 and 150 are kept.
C12_Witness ==
    /\ f_out # None
    /\ f_in.cols = <<<<"A","G","E">>>>
    /\ Len(f_in.rows) = 2
    /\ f_in.rows[1][1] = Int_(0)
    /\ f_in.rows[2][1] = Int_(150)
    /\ f_out.rows[1][1] = Int_(0)
    /\ f_out.rows[2][1] = Int_(150)

\* C12 witness, second case: 151 next to a text; both become null.
C12_WitnessNull ==
    /\ f_out # None
    /\ Len(f_in.rows) = 2
    /\ f_in.rows[1][1] = Int_(151)
    /\ f_in.rows[2][1] = Txt(<<"a","b","c">>)
    /\ f_out.rows[1][1] = Null
    /\ f_out.rows[2][1] = Null

\* the column the stated precedence selects from uppercase names: 0 for none
SelectedByPrecedence(cols) ==
    LET named == {j \in 1..Len(cols) : cols[j] = <<"A","G","E">>}
        ending == {j \in 1..Len(cols) : EndsWith(cols[j], <<" ","A","G","E">>)}
        containing == {j \in 1..Len(cols) :
                          /\ Contains(cols[j], <<"A","G","E">>)
                          /\ ~Contains(cols[j], <<"T","R","I","A","G","E">>)}
    IN IF named # {} THEN Least(named)
       ELSE IF ending # {} THEN Least(ending)
       ELSE IF containing # {} THEN Least(containing)
       ELSE 0

\* C19: the AGE column is selected by precedence: the column named AGE, else
\* the first whose name ends with ' AGE', else the first containing AGE but
\* not TRIAGE.  Only the selected column is renamed (to AGE) and made
\* numeric; every other column keeps its name and values, and a column named
\* TRIAGE LEVEL is never the selected one.
C19_AgeSelection ==
    f_out # None =>
        LET sel == SelectedByPrecedence(f_in.cols)
        IN /\ Len(f_out.cols) = Len(f_in.cols)
           /\ Len(f_out.rows) = Len(f_in.rows)
           /\ \A j \in 1..Len(f_in.cols) :
                  IF j = sel
                  THEN /\ f_out.cols[j] = <<"A","G","E">>
                       /\ f_in.cols[j] # <<"T","R","I","A","G","E"," ","L","E","V","E","L">>
                       /\ \A i \in 1..Len(f_in.rows) :
                              IsNull(f_out.rows[i][j]) \/ IsNum(f_out.rows[i][j])
                  ELSE /\ f_out.cols[j] = f_in.cols[j]
                       /\ \A i \in 1..Len(f_in.rows) :
                              f_out.rows[i][j] = f_in.rows[i][j]

\* C19 witness: TRIAGE LEVEL, AGE GROUP and PATIENT AGE in that order; the
\* third column is selected, renamed and made numeric.
C19_Witness ==
    /\ f_out # None
    /\ f_in.cols = << <<"T","R","I","A","G","E"," ","L","E","V","E","L">>,
                      <<"A","G","E"," ","G","R","O","U","P">>,
                      <<"P","A","T","I","E","N","T"," ","A","G","E">> >>
    /\ f_out.cols = << <<"T","R","I","A","G","E"," ","L","E","V","E","L">>,
                       <<"A","G","E"," ","G","R","O","U","P">>,
                       <<"A","G","E">> >>
    /\ f_out.rows[1] = <<Txt(<<"3","1">>), Txt(<<"3","2">>), Int_(33)>>

(***************************************************************************)
(* validate_data (src/utils.py)                                            *)
(***************************************************************************)
\* df.empty: no row or no column
IsEmpty(df) == Len(df.rows) = 0 \/ Len(df.cols) = 0

\* Series.duplicated().sum(): the values equal to an earlier one
DuplicatedCount(values) ==
    Cardinality({i \in 1..Len(values) : \E h \in 1..(i - 1) : values[h] = values[i]})

\* df.isnull().sum().sum()
MissingValues(df) ==
    Cardinality({<<i, j>> \in (1..Len(df.rows)) \X (1..Len(df.cols)) :
                    IsNull(df.rows[i][j])})

\* the dtype of a column
Dtype(column) ==
    IF \A i \in 1..Len(column) : column[i].k = "int" THEN "int64"
    ELSE IF \A i \in 1..Len(column) : IsNum(column[i]) \/ column[i] = Null
    THEN "float64"
    ELSE IF \A i \in 1..Len(column) : column[i].k \in {"date", "nat"}
    THEN "datetime64[ns]"
    ELSE "object"

\* validation_results['info'] once every entry is computed
ValidationInfo(df) ==
    [total_rows |-> Len(df.rows),
     total_columns |-> Len(df.cols),
     missing_values |-> MissingValues(df),
     duplicate_rows |-> DuplicatedCount(df.rows),
     column_types |-> [j \in 1..Len(df.cols) |-> Dtype(Column(df, j))]]

\* Faulty variant: repeated identifiers reported as an error
ValidateDataDuplicatesFail(df) ==
    IF IsEmpty(df)
    THEN [is_valid |-> FALSE, errors |-> <<"DataFrame is empty">>,
          warnings |-> <<>>, info |-> <<>>]
    ELSE LET missing == ~HasCol(df, s_REGISTRY_ID)
             duplicate_ids ==
                 IF missing THEN 0
                 ELSE DuplicatedCount(Column(df, ColIndex(df, s_REGISTRY_ID)))
         IN [is_valid |-> ~missing /\ duplicate_ids = 0,
             errors |-> (IF missing THEN <<"Missing required columns">> ELSE <<>>)
                        \o (IF duplicate_ids > 0
                            THEN <<"duplicate REGISTRY IDs">> ELSE <<>>),
             warnings |-> <<>>,
             info |-> ValidationInfo(df)]

\* validate_data(df); info is {} (the empty function) after the early return
ValidateData(df) ==
    IF IsEmpty(df)
    THEN [is_valid |-> FALSE, errors |-> <<"DataFrame is empty">>,
          warnings |-> <<>>, info |-> <<>>]
    ELSE LET missing == ~HasCol(df, s_REGISTRY_ID)
             duplicate_ids ==
                 IF missing THEN 0
                 ELSE DuplicatedCount(Column(df, ColIndex(df, s_REGISTRY_ID)))
         IN [is_valid |-> ~missing,
             errors |-> IF missing THEN <<"Missing required columns">> ELSE <<>>,
             warnings |-> IF duplicate_ids > 0
                          THEN <<"duplicate REGISTRY IDs">> ELSE <<>>,
             info |-> ValidationInfo(df)]

ValidateHeaders ==
    { <<>>,
      <<s_REGISTRY_ID>>,
      <<s_REGISTRY_ID, <<"D","I","A","G","N","O","S","I","S">>>>,
      <<<<"N","A","M","E">>, s_AGE>> }

ValidateCells == {Null, Txt(<<"A","1">>), Txt(<<"B","2">>), Int_(1)}

\* tables of 0..MaxRows rows, with and without the identifier column
ValidateTables ==
    UNION {{UpcastTable(Table(cols, rows)) :
               rows \in UNION {[1..n -> [1..Len(cols) -> ValidateCells]] :
                                  n \in 0..MaxRows}} :
           cols \in ValidateHeaders}

InitValidateData ==
    /\ PipelineIdle
    /\ SessionsIdle
    /\ fs_in = None
    /\ fs_out = None
    /\ g_in = None
    /\ g_out = None
    /\ g_again = None
    /\ f_in \in ValidateTables
    /\ f_out = None

CallValidateData ==
    /\ f_in # None
    /\ f_out = None
    /\ f_out' = ValidateData(f_in)
    /\ UNCHANGED <<pc, sheet_names, patient_sheet, diagnosis_sheet,
                   raw_patient, raw_diagnosis, patient_df, diagnosis_df,
                   merged_df, match_report, patient_data, diagnosis_data,
                   merged_data, error, fs_in, fs_out, g_in, g_out, g_again,
                   f_in, session_state, heap, request>>

SpecValidateData == InitValidateData /\ [][CallValidateData]_vars

\* some identifier value occurs in two rows
RepeatedIdentifiers(df) ==
    /\ HasCol(df, s_REGISTRY_ID)
    /\ \E i, h \in 1..Len(df.rows) :
           /\ i # h
           /\ df.rows[i][ColIndex(df, s_REGISTRY_ID)]
                  = df.rows[h][ColIndex(df, s_REGISTRY_ID)]

\* C13: validate_data fails, with at least one error, whenever the REGISTRY ID
\* column is absent; repeated identifier values give a warning and nothing
\* else: the result stays valid and has no error.
C13_ValidateData ==
    f_out # None =>
        /\ ~HasCol(f_in, s_REGISTRY_ID) =>
               f_out.is_valid = FALSE /\ f_out.errors # <<>>
        /\ RepeatedIdentifiers(f_in) =>
               /\ f_out.warnings # <<>>
               /\ f_out.errors = <<>>
               /\ f_out.is_valid = TRUE

\* C13 witness: two rows with the identifier A1; valid, with one warning.
C13_Witness ==
    /\ f_out # None
    /\ f_in.cols = <<s_REGISTRY_ID>>
    /\ f_in.rows = << <<Txt(<<"A","1">>)>>, <<Txt(<<"A","1">>)>> >>
    /\ f_out.is_valid = TRUE
    /\ f_out.errors = <<>>
    /\ Len(f_out.warnings) = 1

\* C13 witness, second case: rows but no identifier column; invalid.
C13_WitnessMissing ==
    /\ f_out # None
    /\ Len(f_in.rows) > 0
    /\ ~HasCol(f_in, s_REGISTRY_ID)
    /\ f_out.is_valid = FALSE
    /\ f_out.errors = <<"Missing required columns">>

InfoKeys ==
    {"total_rows", "total_columns", "missing_values", "duplicate_rows",
     "column_types"}

\* C14: for every input table the info of validate_data's result holds the
\* row count, the column count, the null count, the duplicate-row count and
\* the column types.
C14_InfoComplete ==
    f_out # None => DOMAIN f_out.info = InfoKeys

\* C14, the part that holds: info is complete for every table that has a
\* row and a column, whether or not the identifier column is there.
C14_InfoCompleteNonEmpty ==
    (f_out # None /\ ~IsEmpty(f_in)) =>
        /\ DOMAIN f_out.info = InfoKeys
        /\ f_out.info.total_rows = Len(f_in.rows)
        /\ f_out.info.total_columns = Len(f_in.cols)

\* the rows, and the columns, of a table that hold no value at all
EmptyRows(df) ==
    {i \in 1..Len(df.rows) : \A j \in 1..Len(df.cols) : IsNull(df.rows[i][j])}

EmptyColumns(df) ==
    {j \in 1..Len(df.cols) : \A i \in 1..Len(df.rows) : IsNull(df.rows[i][j])}

\* C15: the patient table and the diagnosis table a successful
\* process_excel_file returns have no fully-empty row and no fully-empty
\* column.
C15_NoEmptyRowOrColumn ==
    pc = "done" =>
        /\ EmptyRows(patient_data) = {} /\ EmptyColumns(patient_data) = {}
        /\ EmptyRows(diagnosis_data) = {} /\ EmptyColumns(diagnosis_data) = {}

\* C15, the part that holds: no returned table has a fully-empty row.
C15_NoEmptyRow ==
    pc = "done" =>
        EmptyRows(patient_data) = {} /\ EmptyRows(diagnosis_data) = {}

(***************************************************************************)
(* Stand-alone calls of _clean_dataframe                                   *)
(***************************************************************************)
\* column names as typed in a sheet; pd.read_excel keeps names that differ
\* in case or blanks apart
RawNames ==
    { <<"R","E","G","I","S","T","R","Y"," ","I","D">>,
      <<"P","a","t","i","e","n","t","_","I","D">>,
      <<"N","a","m","e">>,
      <<"P","a","i","d">>,
      <<"A","g","e">>,
      <<"A","G","E"," ">>,
      <<"P","a","t","i","e","n","t"," ","I","D">>,
      <<" ","p","a","t","i","e","n","t"," ","i","d">> }

\* sheets of one row with up to MaxColumns columns, each cell empty or 7
RawSheets ==
    {Table(cols, <<row>>) :
        cols \in {h \in UNION {[1..k -> RawNames] : k \in 1..MaxColumns} :
                     \A i, j \in 1..Len(h) : i # j => h[i] # h[j]},
        row \in UNION {[1..k -> {Null, Int_(7)}] : k \in 1..MaxColumns}}

InitClean ==
    /\ PipelineIdle
    /\ SessionsIdle
    /\ fs_in = None
    /\ fs_out = None
    /\ g_in = None
    /\ g_out = None
    /\ g_again = None
    /\ f_in \in {df \in RawSheets : Len(df.rows[1]) = Len(df.cols)}
    /\ f_out = None

CallCleanDataframe ==
    /\ f_in # None
    /\ f_out = None
    /\ f_out' = CleanDataframe(f_in)
    /\ UNCHANGED <<pc, sheet_names, patient_sheet, diagnosis_sheet,
                   raw_patient, raw_diagnosis, patient_df, diagnosis_df,
                   merged_df, match_report, patient_data, diagnosis_data,
                   merged_data, error, fs_in, fs_out, g_in, g_out, g_again,
                   f_in, session_state, heap, request>>

SpecClean == InitClean /\ [][CallCleanDataframe]_vars

\* C16: the column names of a cleaned table are trimmed, uppercase and
\* pairwise distinct.
C16_DistinctNames ==
    f_out # None =>
        /\ \A j \in 1..Len(f_out.cols) :
               f_out.cols[j] = Upper(Strip(f_out.cols[j]))
        /\ \A i, j \in 1..Len(f_out.cols) :
               i # j => f_out.cols[i] # f_out.cols[j]

\* C16, the part that holds: the names are trimmed and uppercase, and every
\* column that holds a value is kept with its values.
C16_NamesStandardized ==
    f_out # None =>
        /\ \A j \in 1..Len(f_out.cols) :
               f_out.cols[j] = Upper(Strip(f_out.cols[j]))
        /\ Len(f_out.cols)
               = Cardinality({j \in 1..Len(f_in.cols) : ~IsNull(f_in.rows[1][j])})

\* the standardized names of the columns cleaning keeps, in column order
KeptNames(df) == StandardizeNames(DropEmptyColumns(DropEmptyRows(df))).cols

RegistryLike(name) ==
    \/ Contains(name, <<"R","E","G","I","S","T","R","Y">>)
    \/ Contains(name, <<"I","D">>)
    \/ Contains(name, <<"P","A","T","I","E","N","T","_","I","D">>)
    \/ Contains(name, <<"P","A","T","I","E","N","T","I","D">>)

\* the names the registry rename is stated to leave
RegistryRenamed(names) ==
    LET like == {j \in 1..Len(names) : RegistryLike(names[j])}
    IN IF like # {} /\ \A j \in 1..Len(names) : names[j] # s_REGISTRY_ID
       THEN [names EXCEPT ![Least(like)] = s_REGISTRY_ID]
       ELSE names

\* C20: when no kept column is named REGISTRY ID and some name contains
\* REGISTRY, ID, PATIENT_ID or PATIENTID, exactly the first such column is
\* renamed to REGISTRY ID; otherwise no column is renamed.
C20_RenameFirst ==
    f_out # None => f_out.cols = RegistryRenamed(KeptNames(f_in))

\* C20, the part that holds: the statement is true of every sheet whose
\* standardized names are pairwise distinct.
C20_RenameFirstDistinctNames ==
    (/\ f_out # None
     /\ \A i, j \in 1..Len(KeptNames(f_in)) :
            i # j => KeptNames(f_in)[i] # KeptNames(f_in)[j])
        => f_out.cols = RegistryRenamed(KeptNames(f_in))

(***************************************************************************)
(* The Streamlit app (src/app.py): sessions, uploads and dashboard renders *)
(***************************************************************************)
Sessions == {1, 2}

\* script runs of the two sessions together
MaxRuns == 3

\* the files a user uploads: the sheet names, and the content of the sheet
\* found for the patients and of the sheet found for the diagnoses
Workbooks ==
    { [sheet_names |-> <<<<"P","a","t","i","e","n","t","s">>, <<"D","i","a","g","n","o","s","i","s">>>>,
       patient |-> Table(<<<<"R","E","G","I","S","T","R","Y"," ","I","D">>, <<"A","G","E">>, <<"S","E","X">>>>,
                        <<<<Txt(<<"A","1">>), Int_(34), Txt(<<"m">>)>>,
                          <<Txt(<<"B","2">>), Null, Txt(<<"f">>)>>>>),
       diagnosis |-> Table(<<<<"R","E","G","I","S","T","R","Y"," ","I","D">>, <<"D","I","A","G","N","O","S","I","S">>, <<"D","i","a","g","n","o","s","i","s","_","D","a","t","e">>>>,
                          <<<<Txt(<<"A","1">>), Txt(<<"f","l","u">>), Txt(<<"2","0","2","4","-","0","2","-","0","1">>)>>,
                            <<Txt(<<"B","2">>), Txt(<<"c","o","l","d">>), Txt(<<"n","/","a">>)>>>>)],
      [sheet_names |-> <<<<"P","a","t","i","e","n","t","s">>, <<"D","i","a","g","n","o","s","i","s">>>>,
       patient |-> Table(<<<<"R","E","G","I","S","T","R","Y"," ","I","D">>, <<"S","E","X">>>>,
                        <<<<Txt(<<"B","2">>), Txt(<<"f">>)>>>>),
       diagnosis |-> Table(<<<<"R","E","G","I","S","T","R","Y"," ","I","D">>, <<"D","I","A","G","N","O","S","I","S">>, <<"D","e","p","t">>>>,
                          <<<<Txt(<<"B","2">>), Txt(<<"c","o","l","d">>), Txt(<<"E","R">>)>>,
                            <<Txt(<<"C","3">>), Txt(<<"f","l","u">>), Txt(<<"I","C","U">>)>>>>)],
      [sheet_names |-> <<<<"S","h","e","e","t","1">>, <<"p","a","t","i","e","n","t","_","d","e","t","a","i","l","s">>, <<"d","i","a","g","n","o","s","i","s","_","d","e","t","a","i","l","s">>>>,
       patient |-> Table(<<<<"R","E","G","I","S","T","R","Y"," ","I","D">>, <<"A","G","E">>, <<"S","E","X">>>>,
                        <<<<Txt(<<"A","1">>), Int_(34), Txt(<<"m">>)>>,
                          <<Txt(<<"B","2">>), Null, Txt(<<"f">>)>>>>),
       diagnosis |-> Table(<<<<"R","E","G","I","S","T","R","Y"," ","I","D">>, <<"D","I","A","G","N","O","S","I","S">>, <<"D","a","t","e">>>>,
                          <<<<Txt(<<"A","1">>), Txt(<<"f","l","u">>), Txt(<<"2","0","2","4","-","0","3","-","0","1">>)>>>>)],
      [sheet_names |-> <<<<"P","a","t","i","e","n","t","s">>, <<"D","i","a","g","n","o","s","i","s">>>>,
       patient |-> Table(<<<<"N","a","m","e">>, <<"A","g","e">>>>,
                        <<<<Txt(<<"A","n","n">>), Int_(34)>>>>),
       diagnosis |-> Table(<<<<"R","E","G","I","S","T","R","Y"," ","I","D">>, <<"D","I","A","G","N","O","S","I","S">>>>,
                          <<<<Txt(<<"A","1">>), Txt(<<"f","l","u">>)>>>>)],
      [sheet_names |-> <<<<"S","h","e","e","t","1">>, <<"P","a","t","i","e","n","t","s">>>>,
       patient |-> Table(<<<<"R","E","G","I","S","T","R","Y"," ","I","D">>, <<"A","G","E">>, <<"S","E","X">>>>,
                        <<<<Txt(<<"A","1">>), Int_(34), Txt(<<"m">>)>>,
                          <<Txt(<<"B","2">>), Null, Txt(<<"f">>)>>>>),
       diagnosis |-> Table(<<<<"R","E","G","I","S","T","R","Y"," ","I","D">>, <<"D","I","A","G","N","O","S","I","S">>>>,
                          <<<<Txt(<<"A","1">>), Txt(<<"f","l","u">>)>>>>)] }

\* processor.process_excel_file(uploaded_file) as one call: the three tables
\* returned, or None when it raises
ProcessExcelFile(file) ==
    IF \/ FindSheet(file.sheet_names, PatientKeywords) = NoSheet
       \/ FindSheet(file.sheet_names, DiagnosisKeywords) = NoSheet
    THEN None
    ELSE LET patient == ValidatePatientData(CleanDataframe(ReadExcel(file.patient)))
             found == IF FindSheet(file.sheet_names, PatientKeywords)
                           = FindSheet(file.sheet_names, DiagnosisKeywords)
                      THEN file.patient ELSE file.diagnosis
             diagnosis == ValidateDiagnosisData(CleanDataframe(ReadExcel(found)))
         IN IF patient = None \/ diagnosis = None THEN None
            ELSE IF MergeData(patient, diagnosis).merged = None THEN None
            ELSE [patient_data |-> patient,
                  diagnosis_data |-> diagnosis,
                  merged_data |-> MergeData(patient, diagnosis).merged]

\* the identity of the k-th next object created by session s's script run
Fresh(s, k) ==
    [owner |-> s,
     n |-> Cardinality({r \in DOMAIN heap : r.owner = s}) + k]

InitSessions ==
    /\ PipelineIdle
    /\ FunctionsIdle
    /\ session_state = [s \in Sessions |-> None]
    /\ heap = <<>>
    /\ request = [s \in Sessions |->
                     [pc |-> "idle", runs |-> 0, uploaded_file |-> None,
                      processor |-> None, result |-> None, view |-> None,
                      page |-> "none"]]

\* a script run starts: main() creates the absent session keys and reads the
\* file uploader
Rerun(s) ==
    /\ request[s].pc = "idle"
    /\ request[1].runs + request[2].runs < MaxRuns
    /\ \E file \in Workbooks \cup {None} :
           request' = [request EXCEPT ![s] =
                          [pc |-> IF file = None THEN "render" ELSE "create",
                           runs |-> request[s].runs + 1,
                           uploaded_file |-> file,
                           processor |-> None, result |-> None, view |-> None,
                           page |-> "none"]]
    /\ session_state' =
           IF session_state[s] = None
           THEN [session_state EXCEPT ![s] =
                    [data_processor |-> None, patient_data |-> None,
                     diagnosis_data |-> None, merged_data |-> None]]
           ELSE session_state
    /\ UNCHANGED <<pc, sheet_names, patient_sheet, diagnosis_sheet,
                   raw_patient, raw_diagnosis, patient_df, diagnosis_df,
                   merged_df, match_report, patient_data, diagnosis_data,
                   merged_data, error, fs_in, fs_out, g_in, g_out, g_again,
                   f_in, f_out, heap>>

\* Faulty variant: one module-level DataProcessor serves every session
CreateProcessorShared(s) ==
    /\ request[s].pc = "create"
    /\ heap' = [owner |-> 0, n |-> 1]
                   :> [patient_data |-> None, diagnosis_data |-> None,
                       merged_data |-> None]
               @@ heap
    /\ request' = [request EXCEPT ![s].pc = "process",
                                  ![s].processor = [owner |-> 0, n |-> 1]]
    /\ UNCHANGED <<pc, sheet_names, patient_sheet, diagnosis_sheet,
                   raw_patient, raw_diagnosis, patient_df, diagnosis_df,
                   merged_df, match_report, patient_data, diagnosis_data,
                   merged_data, error, fs_in, fs_out, g_in, g_out, g_again,
                   f_in, f_out, session_state>>

\* processor = DataProcessor()
CreateProcessor(s) ==
    /\ request[s].pc = "create"
    /\ heap' = Fresh(s, 1)
                   :> [patient_data |-> None, diagnosis_data |-> None,
                       merged_data |-> None]
               @@ heap
    /\ request' = [request EXCEPT ![s].pc = "process",
                                  ![s].processor = Fresh(s, 1)]
    /\ UNCHANGED <<pc, sheet_names, patient_sheet, diagnosis_sheet,
                   raw_patient, raw_diagnosis, patient_df, diagnosis_df,
                   merged_df, match_report, patient_data, diagnosis_data,
                   merged_data, error, fs_in, fs_out, g_in, g_out, g_again,
                   f_in, f_out, session_state>>

\* Faulty variant: a failed upload clears the session's tables
ProcessClearing(s) ==
    /\ request[s].pc = "process"
    /\ LET tables == ProcessExcelFile(request[s].uploaded_file)
           refs == [patient_data |-> Fresh(s, 1),
                    diagnosis_data |-> Fresh(s, 2),
                    merged_data |-> Fresh(s, 3)]
       IN IF tables = None
          THEN /\ request' = [request EXCEPT ![s].pc = "render"]
               /\ heap' = heap
               /\ session_state' =
                      [session_state EXCEPT ![s] =
                          [data_processor |-> None, patient_data |-> None,
                           diagnosis_data |-> None, merged_data |-> None]]
          ELSE /\ request' = [request EXCEPT ![s].pc = "store",
                                             ![s].result = refs]
               /\ heap' = (refs.patient_data :> tables.patient_data)
                          @@ (refs.diagnosis_data :> tables.diagnosis_data)
                          @@ (refs.merged_data :> tables.merged_data)
                          @@ [heap EXCEPT ![request[s].processor] = refs]
               /\ session_state' = session_state
    /\ UNCHANGED <<pc, sheet_names, patient_sheet, diagnosis_sheet,
                   raw_patient, raw_diagnosis, patient_df, diagnosis_df,
                   merged_df, match_report, patient_data, diagnosis_data,
                   merged_data, error, fs_in, fs_out, g_in, g_out, g_again,
                   f_in, f_out>>

\* patient_data, diagnosis_data, merged_data = processor.process_excel_file(..)
\* The three tables are new objects, which the processor keeps too; when the
\* call raises, the except branch leaves the session state as it was.
Process(s) ==
    /\ request[s].pc = "process"
    /\ LET tables == ProcessExcelFile(request[s].uploaded_file)
           refs == [patient_data |-> Fresh(s, 1),
                    diagnosis_data |-> Fresh(s, 2),
                    merged_data |-> Fresh(s, 3)]
       IN IF tables = None
          THEN /\ request' = [request EXCEPT ![s].pc = "render"]
               /\ heap' = heap
          ELSE /\ request' = [request EXCEPT ![s].pc = "store",
                                             ![s].result = refs]
               /\ heap' = (refs.patient_data :> tables.patient_data)
                          @@ (refs.diagnosis_data :> tables.diagnosis_data)
                          @@ (refs.merged_data :> tables.merged_data)
                          @@ [heap EXCEPT ![request[s].processor] = refs]
    /\ UNCHANGED <<pc, sheet_names, patient_sheet, diagnosis_sheet,
                   raw_patient, raw_diagnosis, patient_df, diagnosis_df,
                   merged_df, match_report, patient_data, diagnosis_data,
                   merged_data, error, fs_in, fs_out, g_in, g_out, g_again,
                   f_in, f_out, session_state>>

\* the four assignments to st.session_state
StoreSession(s) ==
    /\ request[s].pc = "store"
    /\ session_state' = [session_state EXCEPT ![s] =
                            [data_processor |-> request[s].processor,
                             patient_data |-> request[s].result.patient_data,
                             diagnosis_data |-> request[s].result.diagnosis_data,
                             merged_data |-> request[s].result.merged_data]]
    /\ request' = [request EXCEPT ![s].pc = "render"]
    /\ UNCHANGED <<pc, sheet_names, patient_sheet, diagnosis_sheet,
                   raw_patient, raw_diagnosis, patient_df, diagnosis_df,
                   merged_df, match_report, patient_data, diagnosis_data,
                   merged_data, error, fs_in, fs_out, g_in, g_out, g_again,
                   f_in, f_out, heap>>

\* display_dashboard: the column the date filter takes, 0 when there is none
DashboardDateColumn(df) ==
    IF HasCol(df, <<"D","A","T","E">>) THEN ColIndex(df, <<"D","A","T","E">>)
    ELSE IF HasCol(df, <<"D","I","A","G","N","O","S","I","S","_","D","A","T","E">>)
    THEN ColIndex(df, <<"D","I","A","G","N","O","S","I","S","_","D","A","T","E">>)
    ELSE 0

\* merged_data[date_col] = pd.to_datetime(merged_data[date_col], errors='coerce')
DateConverted(df) ==
    IF DashboardDateColumn(df) = 0 THEN df
    ELSE SetColumn(df, DashboardDateColumn(df),
                   [i \in 1..Len(df.rows) |->
                       ToDatetime(df.rows[i][DashboardDateColumn(df)])])

\* Faulty variant: the rows without an age pass the age filter
AgeFilteredKeepNull(t) ==
    IF ~HasCol(t, s_AGE) THEN {t}
    ELSE LET j == ColIndex(t, s_AGE)
             ages == {t.rows[i][j] : i \in 1..Len(t.rows)} \ {Null, NaT}
         IN IF ages = {} \/ \E c \in ages : ~IsNum(c) THEN {None}
            ELSE LET lo == CHOOSE n \in {c.n : c \in ages} :
                               \A c \in ages : n <= c.n
                     hi == CHOOSE n \in {c.n : c \in ages} :
                               \A c \in ages : c.n <= n
                 IN {Table(t.cols,
                           Pick(t.rows,
                                IdxSeq({i \in 1..Len(t.rows) :
                                           \/ IsNull(t.rows[i][j])
                                           \/ /\ IsNum(t.rows[i][j])
                                              /\ r[1] <= t.rows[i][j].n
                                              /\ t.rows[i][j].n <= r[2]}))) :
                        r \in {x \in (lo..hi) \X (lo..hi) : x[1] <= x[2]}}

\* display_dashboard, the age filter: the tables it can bind merged_data to,
\* one for each range the slider offers between int(min) and int(max) of AGE
\* (the whole range is the default); a comparison with NaN is false.  None:
\* the filter raised, AGE holding no value (int(nan)) or a text (>= with an
\* int).
AgeFiltered(t) ==
    IF ~HasCol(t, s_AGE) THEN {t}
    ELSE LET j == ColIndex(t, s_AGE)
             ages == {t.rows[i][j] : i \in 1..Len(t.rows)} \ {Null, NaT}
         IN IF ages = {} \/ \E c \in ages : ~IsNum(c) THEN {None}
            ELSE LET lo == CHOOSE n \in {c.n : c \in ages} :
                               \A c \in ages : n <= c.n
                     hi == CHOOSE n \in {c.n : c \in ages} :
                               \A c \in ages : c.n <= n
                 IN {Table(t.cols,
                           Pick(t.rows,
                                IdxSeq({i \in 1..Len(t.rows) :
                                           /\ IsNum(t.rows[i][j])
                                           /\ r[1] <= t.rows[i][j].n
                                           /\ t.rows[i][j].n <= r[2]}))) :
                        r \in {x \in (lo..hi) \X (lo..hi) : x[1] <= x[2]}}

\* The values the local name merged_data of display_dashboard can have after
\* the four filters, each of which binds the name to a new table: the default
\* date range, any gender option, any age range, any department option.
\* None: the age filter raised.
FilteredViews(df) ==
    LET Keep(t, I) == Table(t.cols, Pick(t.rows, IdxSeq(I)))
        Values(t, j) == {t.rows[i][j] : i \in 1..Len(t.rows)} \ {Null, NaT}
        Options(t, j) ==
            {t} \cup {Keep(t, {i \in 1..Len(t.rows) : t.rows[i][j] = v}) :
                         v \in Values(t, j)}
        d == DashboardDateColumn(df)
        dated == IF d = 0 \/ Values(df, d) = {} THEN df
                 ELSE Keep(df, {i \in 1..Len(df.rows) : ~IsNull(df.rows[i][d])})
        by_gender == IF HasCol(dated, s_GENDER)
                     THEN Options(dated, ColIndex(dated, s_GENDER))
                     ELSE {dated}
        ByDept(t) ==
            LET dept_columns ==
                    IdxSeq({j \in 1..Len(t.cols) :
                               \/ Contains(Upper(t.cols[j]), <<"D","E","P","T">>)
                               \/ Contains(Upper(t.cols[j]),
                                           <<"D","E","P","A","R","T","M","E","N","T">>)})
            IN IF t = None THEN {None}
               ELSE IF dept_columns = <<>> THEN {t}
               ELSE Options(t, dept_columns[1])
    IN UNION {UNION {ByDept(u) : u \in AgeFiltered(t)} : t \in by_gender}

\* The rest of the script run: the welcome page while no table is stored,
\* else display_dashboard, which converts the date column of the stored
\* merged table in place and then filters into new tables.
Render(s) ==
    /\ request[s].pc = "render"
    /\ IF session_state[s].merged_data = None
       THEN /\ heap' = heap
            /\ request' = [request EXCEPT ![s].pc = "idle",
                                          ![s].page = "welcome"]
       ELSE /\ heap' = [heap EXCEPT ![session_state[s].merged_data] =
                           DateConverted(heap[session_state[s].merged_data])]
            /\ \E view \in FilteredViews(
                               DateConverted(heap[session_state[s].merged_data])) :
                   request' = [request EXCEPT ![s].pc = "idle",
                                              ![s].view = view,
                                              ![s].page = "dashboard"]
    /\ UNCHANGED <<pc, sheet_names, patient_sheet, diagnosis_sheet,
                   raw_patient, raw_diagnosis, patient_df, diagnosis_df,
                   merged_df, match_report, patient_data, diagnosis_data,
                   merged_data, error, fs_in, fs_out, g_in, g_out, g_again,
                   f_in, f_out, session_state>>

NextSessions ==
    \E s \in Sessions :
        \/ Rerun(s)
        \/ CreateProcessor(s)
        \/ Process(s)
        \/ StoreSession(s)
        \/ Render(s)

SpecSessions == InitSessions /\ [][NextSessions]_vars

TableFields == {"patient_data", "diagnosis_data", "merged_data"}

\* the objects session s can reach: through its session state, through the
\* locals of its script run, and through the processors among those
Reach(s) ==
    LET held == (IF session_state[s] = None THEN {}
                 ELSE {session_state[s][f] : f \in DOMAIN session_state[s]})
                \cup {request[s].processor}
                \cup (IF request[s].result = None THEN {}
                      ELSE {request[s].result[f] : f \in TableFields})
        direct == held \ {None}
        processors == {r \in direct \cap DOMAIN heap :
                          DOMAIN heap[r] = TableFields}
    IN direct \cup ({heap[r][f] : r \in processors, f \in TableFields} \ {None})

\* C17: two sessions never share mutable table state.  No object (processor
\* or table) is reachable from two sessions, and a step changes only objects
\* of the session that takes it, leaving the other session's state and
\* locals as they were.
C17_NoSharedState ==
    /\ [](\A s, t \in Sessions : s # t => Reach(s) \cap Reach(t) = {})
    /\ [][\A r \in DOMAIN heap :
              heap'[r] # heap[r] =>
                  \E s \in Sessions :
                      /\ r \in Reach(s)
                      /\ request'[s] # request[s]
                      /\ \A t \in Sessions \ {s} :
                             /\ request'[t] = request[t]
                             /\ session_state'[t] = session_state[t]]_vars

\* C17 witness: both sessions uploaded the same workbook and hold equal
\* patient tables as two objects; session 1's dashboard has changed its
\* merged table, session 2's is as processed.
C17_Witness ==
    /\ session_state[1] # None /\ session_state[2] # None
    /\ session_state[1].merged_data # None
    /\ session_state[2].merged_data # None
    /\ session_state[1].patient_data # session_state[2].patient_data
    /\ heap[session_state[1].patient_data] = heap[session_state[2].patient_data]
    /\ heap[session_state[1].merged_data] # heap[session_state[2].merged_data]
    /\ request[1].uploaded_file = request[2].uploaded_file
    /\ request[1].pc = "idle" /\ request[2].pc = "render"

\* C18: no step changes a table held in session state: the stored merged,
\* patient and diagnosis tables stay as the pipeline returned them.
C18_StoredTablesUnchanged ==
    [][\A s \in Sessions : \A f \in TableFields :
           (session_state[s] # None /\ session_state[s][f] # None) =>
               heap'[session_state[s][f]] = heap[session_state[s][f]]]_vars

\* C18, the part that holds: the stored patient and diagnosis tables never
\* change.
C18_PatientDiagnosisUnchanged ==
    [][\A s \in Sessions : \A f \in {"patient_data", "diagnosis_data"} :
           (session_state[s] # None /\ session_state[s][f] # None) =>
               heap'[session_state[s][f]] = heap[session_state[s][f]]]_vars

\* C26: the two sheet lookups are independent.  When the first sheet matching
\* a patient keyword is also the first sheet matching a diagnosis keyword,
\* sheet resolution passes with that sheet in both roles, and the patient
\* table and the diagnosis table are read from it: they have one content.
C26_OneSheetBothRoles ==
    LET as_patient == RoleSheets(PatientKeywords)
        as_diagnosis == RoleSheets(DiagnosisKeywords)
    IN (/\ pc \notin {"idle", "find_sheets"}
        /\ as_patient # {}
        /\ as_diagnosis # {}
        /\ Least(as_patient) = Least(as_diagnosis))
           => /\ error \notin SheetErrors
              /\ patient_sheet = <<sheet_names[Least(as_patient)]>>
              /\ diagnosis_sheet = patient_sheet
              /\ pc # "read_sheets"
                     => raw_patient # None /\ raw_diagnosis = raw_patient

\* C26 witness: the workbook has the single sheet PatientDiag, and
\* process_excel_file has returned tables read from it.
C26_Witness ==
    /\ pc = "done"
    /\ sheet_names = << <<"P","a","t","i","e","n","t","D","i","a","g">> >>
    /\ patient_sheet = diagnosis_sheet
    /\ raw_diagnosis = raw_patient
    /\ Len(raw_patient.rows) = 2

\* the rows of the cleaned patient sheet that validation keeps, in order
KeptPatientRows ==
    LET cleaned == CleanDataframe(raw_patient)
        kp == ColIndex(patient_df, s_REGISTRY_ID)
    IN SelectSeq(cleaned.rows, LAMBDA row : ~IsNull(row[kp]))

s_NAN == <<"N","A","N">>

\* C24: gender normalization does not keep a null cell.  A kept patient row
\* with an empty cell in the selected gender column has GENDER = 'NAN' in the
\* validated patient table, and no GENDER cell of that table is null; in the
\* merged table a row whose identifier occurs in the patient table has the
\* non-null GENDER of a patient row with that identifier ('NAN' is carried over
\* for every patient without a recorded gender), and a row whose identifier
\* does not occur there has a null GENDER.
C24_NullGenderBecomesText ==
    MergeDone =>
        LET g == GenderColumn(CleanDataframe(raw_patient))
            kept == KeptPatientRows
            kp == ColIndex(patient_df, s_REGISTRY_ID)
            kd == ColIndex(diagnosis_df, s_REGISTRY_ID)
        IN g # 0 =>
           /\ patient_df.cols[g] = s_GENDER
           /\ Len(patient_df.rows) = Len(kept)
           /\ \A k \in 1..Len(patient_df.rows) :
                  /\ patient_df.rows[k][g].k = "str"
                  /\ IsNull(kept[k][g])
                         => patient_df.rows[k][g] = Txt(s_NAN)
           /\ (HasCol(merged_df, s_GENDER) /\ ~HasCol(diagnosis_df, s_GENDER)) =>
                  LET gm == ColIndex(merged_df, s_GENDER)
                  IN /\ \A r \in 1..Len(merged_df.rows) :
                            IF merged_df.rows[r][kd] \in IdsOf(patient_df)
                            THEN \E k \in 1..Len(patient_df.rows) :
                                     /\ patient_df.rows[k][kp] = merged_df.rows[r][kd]
                                     /\ patient_df.rows[k][g] = merged_df.rows[r][gm]
                            ELSE merged_df.rows[r][gm] = Null
                     /\ \A k \in 1..Len(patient_df.rows) :
                            (/\ IsNull(kept[k][g])
                             /\ patient_df.rows[k][kp] \in IdsOf(diagnosis_df))
                                => \E r \in 1..Len(merged_df.rows) :
                                       /\ merged_df.rows[r][kd] = patient_df.rows[k][kp]
                                       /\ merged_df.rows[r][gm] = Txt(s_NAN)

\* C24 witness: the merged table holds a matched patient without a recorded
\* gender next to a diagnosis row without a patient.
C24_Witness ==
    /\ pc = "done"
    /\ GenderColumn(CleanDataframe(raw_patient)) # 0
    /\ \E k \in 1..Len(KeptPatientRows) :
           IsNull(KeptPatientRows[k][GenderColumn(CleanDataframe(raw_patient))])
    /\ HasCol(merged_data, s_GENDER)
    /\ \E r \in 1..Len(merged_data.rows) :
           merged_data.rows[r][ColIndex(merged_data, s_GENDER)] = Txt(s_NAN)
    /\ \E r \in 1..Len(merged_data.rows) :
           /\ merged_data.rows[r][ColIndex(merged_data, s_REGISTRY_ID)]
                  \notin IdsOf(patient_data)
           /\ merged_data.rows[r][ColIndex(merged_data, s_GENDER)] = Null

\* the tables session s's uploads have produced so far
TablesOf(s) ==
    {r \in DOMAIN heap : r.owner = s /\ DOMAIN heap[r] = {"cols", "rows"}}

\* the processor of session s's latest successful upload
LatestProcessor(s) ==
    CHOOSE p \in DOMAIN heap :
        /\ p.owner = s
        /\ DOMAIN heap[p] = TableFields
        /\ heap[p].merged_data # None
        /\ \A r \in TablesOf(s) : r.n <= heap[p].merged_data.n

\* C23: a failed upload leaves the four session-state entries as they were.
\* Whenever the script run of a session has passed the upload, the entries
\* are those of the session's latest successful upload, and the page it then
\* shows is the welcome page exactly when no upload of the session has
\* succeeded; otherwise it is the dashboard.
C23_FailedUploadKeepsTables ==
    /\ [][\A s \in Sessions :
              (request[s].pc = "process" /\ request'[s].pc = "render")
                  => /\ ProcessExcelFile(request[s].uploaded_file) = None
                     /\ session_state'[s] = session_state[s]]_vars
    /\ [](\A s \in Sessions :
              (request[s].pc \in {"render", "idle"} /\ session_state[s] # None)
                  => /\ IF TablesOf(s) = {}
                        THEN session_state[s] =
                                 [data_processor |-> None, patient_data |-> None,
                                  diagnosis_data |-> None, merged_data |-> None]
                        ELSE /\ session_state[s].data_processor = LatestProcessor(s)
                             /\ \A f \in TableFields :
                                    session_state[s][f] = heap[LatestProcessor(s)][f]
                     /\ request[s].page = "welcome" => TablesOf(s) = {}
                     /\ request[s].page = "dashboard" => TablesOf(s) # {})

\* C23 witness: a session whose first upload succeeded and whose second
\* upload failed shows the dashboard on the first upload's tables.
C23_Witness ==
    /\ request[1].runs = 2
    /\ request[1].pc = "idle"
    /\ request[1].page = "dashboard"
    /\ request[1].uploaded_file # None
    /\ ProcessExcelFile(request[1].uploaded_file) = None
    /\ Cardinality(TablesOf(1)) = 3
    /\ session_state[1].merged_data \in TablesOf(1)

(***************************************************************************)
(* _process_diagnosis_columns on its own                                   *)
(***************************************************************************)
\* cleaned column names of a diagnosis sheet
DiagnosisHeaders ==
    { <<<<"D","I","A","G","N","O","S","I","S">>, <<"D","E","P","T">>>>,
      <<<<"P","R","I","M","A","R","Y"," ","D","I","A","G","N","O","S","I","S">>, <<"S","E","C","O","N","D","A","R","Y"," ","C","O","N","D","I","T","I","O","N">>>>,
      <<<<"D","I","A","G","N","O","S","I","S","_","D","A","T","E">>, <<"D","I","A","G","N","O","S","I","S">>>>,
      <<<<"C","O","N","D","I","T","I","O","N">>, <<"V","I","S","I","T"," ","D","A","T","E">>>> }

\* cells of a sheet: empty, texts typed with blanks or in mixed case, a date,
\* a code number
DiagnosisCells ==
    {Null, Txt(<<" ","f","l","u"," ">>), Txt(<<"2","0","2","4","-","0","2","-","0","1">>), Txt(<<" ","N","a","n"," ">>), Int_(7)}

\* the diagnosis tables of one row and of two rows, as _process_date_columns
\* leaves them
DiagnosisTables ==
    UNION {{ProcessDateColumns(ReadExcel(Table(cols, rows))) :
               rows \in {<<r>> : r \in [1..Len(cols) -> DiagnosisCells]}
                        \cup {<<r, s>> : r \in [1..Len(cols) -> DiagnosisCells],
                                         s \in [1..Len(cols) -> DiagnosisCells]}} :
              cols \in DiagnosisHeaders}

InitDiagnosis ==
    /\ PipelineIdle
    /\ SessionsIdle
    /\ fs_in = None
    /\ fs_out = None
    /\ g_in = None
    /\ g_out = None
    /\ g_again = None
    /\ f_in \in DiagnosisTables
    /\ f_out = None

CallProcessDiagnosis ==
    /\ f_in # None
    /\ f_out = None
    /\ f_out' = ProcessDiagnosisColumns(f_in)
    /\ UNCHANGED <<pc, sheet_names, patient_sheet, diagnosis_sheet,
                   raw_patient, raw_diagnosis, patient_df, diagnosis_df,
                   merged_df, match_report, patient_data, diagnosis_data,
                   merged_data, error, fs_in, fs_out, g_in, g_out, g_again,
                   f_in, session_state, heap, request>>

SpecDiagnosis == InitDiagnosis /\ [][CallProcessDiagnosis]_vars

\* the columns whose name contains DIAGNOSIS or CONDITION
DiagnosisColumns(df) ==
    {j \in 1..Len(df.cols) :
        \/ Contains(Upper(df.cols[j]), <<"D","I","A","G","N","O","S","I","S">>)
        \/ Contains(Upper(df.cols[j]), <<"C","O","N","D","I","T","I","O","N">>)}

\* C22: diagnosis normalization applies to every column whose name contains
\* DIAGNOSIS or CONDITION: each non-null cell becomes its trimmed, uppercased
\* text, each null cell is null afterwards, and no output cell is the text
\* NAN; the other columns are left alone.
C22_DiagnosisNormalized ==
    f_out # None =>
        /\ f_out.cols = f_in.cols
        /\ Len(f_out.rows) = Len(f_in.rows)
        /\ \A i \in 1..Len(f_in.rows) : \A j \in 1..Len(f_in.cols) :
               IF j \in DiagnosisColumns(f_in)
               THEN /\ f_out.rows[i][j] # Txt(s_NAN)
                    /\ IF IsNull(f_in.rows[i][j])
                       THEN IsNull(f_out.rows[i][j])
                       ELSE f_out.rows[i][j]
                                = Txt(Upper(Strip(Str(f_in.rows[i][j]))))
               ELSE f_out.rows[i][j] = f_in.rows[i][j]

\* C22, the part that holds: in a column that is no datetime column, a null
\* cell and a cell whose trimmed, uppercased text is NAN are null afterwards,
\* every other cell becomes its trimmed, uppercased text; in a datetime
\* column every cell becomes text, a missing date the text NAT.
C22_DiagnosisNormalizedText ==
    f_out # None =>
        /\ f_out.cols = f_in.cols
        /\ Len(f_out.rows) = Len(f_in.rows)
        /\ \A i \in 1..Len(f_in.rows) : \A j \in 1..Len(f_in.cols) :
               IF j \in DiagnosisColumns(f_in)
               THEN /\ f_out.rows[i][j] # Txt(s_NAN)
                    /\ IF \/ f_in.rows[i][j] = Null
                          \/ Upper(Strip(Str(f_in.rows[i][j]))) = s_NAN
                       THEN f_out.rows[i][j] = Null
                       ELSE f_out.rows[i][j]
                                = Txt(Upper(Strip(Str(f_in.rows[i][j]))))
                    /\ f_in.rows[i][j] = NaT
                           => f_out.rows[i][j] = Txt(<<"N","A","T">>)
               ELSE f_out.rows[i][j] = f_in.rows[i][j]

\* a missing date in a column named DIAGNOSIS_DATE has become the text NAT
C22_NaTBecomesText ==
    /\ f_out # None
    /\ \E i \in 1..Len(f_in.rows) : \E j \in DiagnosisColumns(f_in) :
           /\ f_in.rows[i][j] = NaT
           /\ f_out.rows[i][j] = Txt(<<"N","A","T">>)

(***************************************************************************)
(* display_dashboard on the tables of one upload                           *)
(***************************************************************************)
Roles == {"AGE", "GENDER", "DATE", "DIAGNOSIS", "DEPT"}

\* the lookups of display_dashboard and display_export_options
DashboardFinds(df, role) ==
    CASE role = "AGE" -> HasCol(df, s_AGE)
      [] role = "GENDER" -> HasCol(df, s_GENDER)
      [] role = "DATE" -> DashboardDateColumn(df) # 0
      [] role = "DIAGNOSIS" ->
             \E j \in 1..Len(df.cols) :
                 Contains(Upper(df.cols[j]), <<"D","I","A","G","N","O","S","I","S">>)
      [] role = "DEPT" ->
             \E j \in 1..Len(df.cols) :
                 \/ Contains(Upper(df.cols[j]), <<"D","E","P","T">>)
                 \/ Contains(Upper(df.cols[j]), <<"D","E","P","A","R","T","M","E","N","T">>)

\* the lookups of VisualizationManager: age and gender distribution,
\* registration trends, top diagnoses, department analysis
ChartFinds(df, role) ==
    CASE role = "AGE" -> HasCol(df, s_AGE)
      [] role = "GENDER" -> HasCol(df, s_GENDER)
      [] role = "DATE" ->
             \E j \in 1..Len(df.cols) :
                 /\ Contains(Upper(df.cols[j]), <<"D","A","T","E">>)
                 /\ ~Contains(Upper(df.cols[j]), <<"D","I","A","G","N","O","S","I","S">>)
      [] role = "DIAGNOSIS" ->
             \E j \in 1..Len(df.cols) :
                 Contains(Upper(df.cols[j]), <<"D","I","A","G","N","O","S","I","S">>)
      [] role = "DEPT" ->
             \E j \in 1..Len(df.cols) :
                 \/ Contains(Upper(df.cols[j]), <<"D","E","P","T">>)
                 \/ Contains(Upper(df.cols[j]), <<"D","E","P","A","R","T","M","E","N","T">>)

\* the sheets with the given header and some of the given rows, in order
SubSheets(header, rows) ==
    {Table(header, Pick(rows, IdxSeq(I))) : I \in SUBSET (1..Len(rows))}

\* uploads: the age on the patient sheet, the age on the diagnosis sheet, and
\* two sheets with the same columns
DashboardWorkbooks ==
    UNION {
        {[sheet_names |-> <<<<"P","a","t","i","e","n","t","s">>, <<"D","i","a","g","n","o","s","i","s">>>>, patient |-> p, diagnosis |-> d] :
            p \in SubSheets(<<<<"R","E","G","I","S","T","R","Y"," ","I","D">>, <<"A","g","e">>, <<"S","e","x">>>>,
                          <<<<Txt(<<"A","1">>), Int_(34), Txt(<<"m">>)>>,
                            <<Txt(<<"B","2">>), Null, Txt(<<"f">>)>>,
                            <<Txt(<<"C","3">>), Int_(70), Null>>>>),
            d \in SubSheets(<<<<"R","E","G","I","S","T","R","Y"," ","I","D">>, <<"D","i","a","g","n","o","s","i","s">>, <<"D","e","p","t">>>>,
                          <<<<Txt(<<"A","1">>), Txt(<<"f","l","u">>), Txt(<<"E","R">>)>>,
                            <<Txt(<<"B","2">>), Txt(<<"c","o","l","d">>), Txt(<<"I","C","U">>)>>,
                            <<Txt(<<"C","3">>), Txt(<<"f","l","u">>), Txt(<<"I","C","U">>)>>,
                            <<Txt(<<"D","4">>), Txt(<<"f","l","u">>), Txt(<<"E","R">>)>>>>)},
        {[sheet_names |-> <<<<"P","a","t","i","e","n","t","s">>, <<"D","i","a","g","n","o","s","i","s">>>>, patient |-> p, diagnosis |-> d] :
            p \in SubSheets(<<<<"R","E","G","I","S","T","R","Y"," ","I","D">>, <<"S","e","x">>>>,
                          <<<<Txt(<<"A","1">>), Txt(<<"m">>)>>,
                            <<Txt(<<"B","2">>), Txt(<<"f">>)>>>>),
            d \in SubSheets(<<<<"R","E","G","I","S","T","R","Y"," ","I","D">>, <<"D","i","a","g","n","o","s","i","s">>, <<"A","g","e">>>>,
                          <<<<Txt(<<"A","1">>), Txt(<<"f","l","u">>), Int_(40)>>,
                            <<Txt(<<"D","4">>), Txt(<<"c","o","l","d">>), Int_(50)>>,
                            <<Txt(<<"B","2">>), Txt(<<"f","l","u">>), Null>>,
                            <<Txt(<<"C","3">>), Txt(<<"f","l","u">>), Txt(<<"n","/","a">>)>>>>)},
        {[sheet_names |-> <<<<"P","a","t","i","e","n","t","s">>, <<"D","i","a","g","n","o","s","i","s">>>>, patient |-> p, diagnosis |-> d] :
            p \in SubSheets(<<<<"R","E","G","I","S","T","R","Y"," ","I","D">>, <<"A","g","e">>, <<"G","e","n","d","e","r">>, <<"D","i","a","g","n","o","s","i","s">>, <<"D","e","p","t">>, <<"D","a","t","e">>>>,
                          <<<<Txt(<<"A","1">>), Int_(34), Txt(<<"m">>), Txt(<<"f","l","u">>), Txt(<<"E","R">>), Txt(<<"2","0","2","4","-","0","2","-","0","1">>)>>,
                            <<Txt(<<"B","2">>), Null, Txt(<<"f">>), Txt(<<"c","o","l","d">>), Txt(<<"I","C","U">>), Txt(<<"n","/","a">>)>>>>),
            d \in SubSheets(<<<<"R","E","G","I","S","T","R","Y"," ","I","D">>, <<"A","g","e">>, <<"G","e","n","d","e","r">>, <<"D","i","a","g","n","o","s","i","s">>, <<"D","e","p","t">>, <<"D","a","t","e">>>>,
                          <<<<Txt(<<"A","1">>), Int_(34), Txt(<<"m">>), Txt(<<"f","l","u">>), Txt(<<"E","R">>), Txt(<<"2","0","2","4","-","0","2","-","0","1">>)>>,
                            <<Txt(<<"B","2">>), Null, Txt(<<"f">>), Txt(<<"c","o","l","d">>), Txt(<<"I","C","U">>), Txt(<<"n","/","a">>)>>>>)} }

\* the tables a successful upload has stored
InitDashboard ==
    /\ FunctionsIdle
    /\ SessionsIdle
    /\ sheet_names = <<>> /\ patient_sheet = NoSheet /\ diagnosis_sheet = NoSheet
    /\ raw_patient = None /\ raw_diagnosis = None
    /\ patient_df = None /\ diagnosis_df = None /\ merged_df = None
    /\ match_report = None
    /\ error = "none"
    /\ pc = "done"
    /\ \E file \in DashboardWorkbooks :
           /\ ProcessExcelFile(file) # None
           /\ patient_data = ProcessExcelFile(file).patient_data
           /\ diagnosis_data = ProcessExcelFile(file).diagnosis_data
           /\ merged_data = ProcessExcelFile(file).merged_data

\* display_dashboard: the date column is converted in place, the filters bind
\* a view, and the metrics, charts and the export work on the view.  found
\* and charts: the roles the dashboard and the charts find a column for.
CallDashboard ==
    /\ pc = "done"
    /\ f_out = None
    /\ merged_data' = DateConverted(merged_data)
    /\ \E view \in FilteredViews(DateConverted(merged_data)) :
           f_out' = [view |-> view,
                     found |-> {role \in Roles :
                                   DashboardFinds(DateConverted(merged_data), role)},
                     charts |-> IF view = None THEN {}
                                ELSE {role \in Roles : ChartFinds(view, role)}]
    /\ UNCHANGED <<pc, sheet_names, patient_sheet, diagnosis_sheet,
                   raw_patient, raw_diagnosis, patient_df, diagnosis_df,
                   merged_df, match_report, patient_data, diagnosis_data,
                   error, fs_in, fs_out, g_in, g_out, g_again,
                   f_in, session_state, heap, request>>

SpecDashboard == InitDashboard /\ [][CallDashboard]_vars

\* the rows of the view come from the stored merged table
ViewOfMerged ==
    /\ f_out.view.cols = merged_data.cols
    /\ \A r \in 1..Len(f_out.view.rows) :
           \E i \in 1..Len(merged_data.rows) :
               f_out.view.rows[r] = merged_data.rows[i]

\* the rows of a merged table whose identifier no patient row carries
Unmatched(df) ==
    {i \in 1..Len(df.rows) :
        df.rows[i][ColIndex(df, s_REGISTRY_ID)] \notin IdsOf(patient_data)}

C25_UnmatchedShown ==
    /\ f_out # None /\ f_out.view # None
    /\ HasCol(diagnosis_data, s_AGE) /\ HasCol(merged_data, s_AGE)
    /\ Unmatched(f_out.view) # {}

\* the name of the column that carries a role
RoleName(role) ==
    CASE role = "AGE" -> s_AGE
      [] role = "GENDER" -> s_GENDER
      [] role = "DATE" -> <<"D","A","T","E">>
      [] role = "DIAGNOSIS" -> <<"D","I","A","G","N","O","S","I","S">>
      [] role = "DEPT" -> <<"D","E","P","T">>

\* the merged table holds the role's column under both side tags
Suffixed(df, role) ==
    /\ HasCol(df, RoleName(role) \o <<"_","D","I","A","G">>)
    /\ HasCol(df, RoleName(role) \o <<"_","P","A","T","I","E","N","T">>)

\* C21: when a role column exists in both input tables and is in the merged
\* table with the suffixes _DIAG and _PATIENT, every lookup of that role by
\* the dashboard and by the charts finds a column.
C21_SuffixTolerated ==
    f_out # None =>
        \A role \in Roles :
            Suffixed(merged_data, role) =>
                /\ role \in f_out.found
                /\ f_out.view # None => role \in f_out.charts

\* C21, the part that holds: the lookups by substring (diagnosis and
\* department everywhere, the date in the charts) find a suffixed column.
C21_SubstringLookups ==
    f_out # None =>
        \A role \in Roles :
            Suffixed(merged_data, role) =>
                /\ role \in {"DIAGNOSIS", "DEPT"} => role \in f_out.found
                /\ (f_out.view # None /\ role \in {"DIAGNOSIS", "DEPT", "DATE"})
                       => role \in f_out.charts

\* both sheets had an age, a gender and a date column, and the dashboard has
\* found none of the three roles
C21_RolesAbsent ==
    /\ f_out # None /\ f_out.view # None
    /\ \A role \in Roles : Suffixed(merged_data, role)
    /\ f_out.found = {"DIAGNOSIS", "DEPT"}
    /\ f_out.charts = {"DIAGNOSIS", "DEPT", "DATE"}
    /\ \E r \in 1..Len(f_out.view.rows) :
           IsNull(f_out.view.rows[r][ColIndex(merged_data,
                      s_AGE \o <<"_","P","A","T","I","E","N","T">>)])

====
